---------------------------- MODULE Spec2Model ----------------------------
(***************************************************************************)
(* Model of the SIPROQUIM conversion core: the field validator, the        *)
(* structure validator, the identifier extractor (with its noisy-OCR       *)
(* recovery) and the integrated validation / correction / audit pipeline.  *)
(*                                                                         *)
(* Strings are sequences of one-character strings, so that the             *)
(* conversions of the code (strip, digit filter, upper-casing, regular     *)
(* expressions) are computed and not assumed.                              *)
(***************************************************************************)
EXTENDS Integers, Sequences, FiniteSets, TLC

VARIABLES
    pc,                 \* position of the running operation
    fail_fast,          \* ValidadorCampos.fail_fast / ProcessadorValidacaoIntegrada.fail_fast
    registro,           \* the record handed to validar_registro_completo
    erros_encontrados,  \* ValidadorCampos.erros_encontrados (the returned list)
    texto_pagina,       \* the page text handed to the structure validator
    labels_encontrados, \* ValidadorEstruturaPDF.labels_encontrados
    labels_faltando,    \* ValidadorEstruturaPDF.labels_faltando
    retorno,            \* what the last call returned or raised
    chamadas,           \* number of calls made on the structure validator
    validar_estrutura_pdf_flag, \* ProcessadorValidacaoIntegrada.validar_estrutura_pdf_flag
    base_conhecimento,  \* the knowledge base (BaseConhecimentoNomes), read only
    registros,          \* the record objects (dicts) of the batch, by identity
    nfs_extraidas,      \* the argument of filtrar_dados_validos: references to records
    nfs_finais,         \* the list filtrar_dados_validos builds and returns
    idx,                \* position of the loop of filtrar_dados_validos (1-based)
    registros_corrigidos_count,
    registros_com_erros_count,
    registros_com_erros_criticos_count,
    total_erros_encontrados,
    ajustes_manuais_count,
    erros_por_nf,       \* document number -> list of errors
    indice_docs_por_nome, \* _indice_docs_por_nome
    eventos,            \* the 'ajuste_manual' events handed to callback_event
    estado,             \* per record: RAW, VALIDATED, CORRECTION_ATTEMPTED, AUDITED
    execucoes,          \* number of filtrar_dados_validos calls started
    lote_inicial,       \* the records as they were when the current call started
    funcao_chamada,     \* the function of campo_extractor.py that was called
    texto_entrada,      \* its argument
    tokens,             \* _extrair_cnpj_ocr_ruidoso: tokens
    idx_token,          \* position of its loop over the tokens (1-based)
    candidatos_validos, \* _extrair_cnpj_ocr_ruidoso: candidatos_validos
    cnpj_extraido,      \* what the function returned
    montados,           \* candidates _extrair_cnpj_ocr_ruidoso has assembled in this call
    campos_linha,       \* the field values written into a line of the interchange file
    linha_txt,          \* the line handed to the positional parser
    registro_txt,       \* what the parser made of the line
    linhas_txt,             \* parse_txt_siproquim: linhas, the lines of the file
    idx_linha,          \* number of the line its loop has handled last (0 before the first)
    nome_entrada,       \* the argument of _normalizar_nome_chave
    chave_devolvida,    \* what it returned
    lote_exec,          \* filtrar_dados_validos: nfs_extraidas of each of two calls under way
    pc_exec,            \* where each of the two calls stands
    idx_exec            \* idx of the loop of each of the two calls

varsValidador == <<registro, erros_encontrados>>
varsEstrutura == <<texto_pagina, labels_encontrados, labels_faltando, chamadas>>
varsContadores ==
    <<registros_corrigidos_count, registros_com_erros_count,
      registros_com_erros_criticos_count, total_erros_encontrados, ajustes_manuais_count>>
varsLote ==
    <<validar_estrutura_pdf_flag, base_conhecimento, registros, nfs_extraidas, nfs_finais, idx,
      varsContadores, erros_por_nf, indice_docs_por_nome, eventos, estado, execucoes,
      lote_inicial>>

varsExtrator ==
    <<funcao_chamada, texto_entrada, tokens, idx_token, candidatos_validos, cnpj_extraido,
      montados>>

varsParser == <<campos_linha, linha_txt, registro_txt, linhas_txt, idx_linha>>
varsNome == <<nome_entrada, chave_devolvida>>
varsExecucoes == <<lote_exec, pc_exec, idx_exec>>

vars ==
    <<pc, fail_fast, retorno, varsValidador, varsEstrutura, varsLote, varsExtrator,
      varsParser, varsNome, varsExecucoes>>

-----------------------------------------------------------------------------
(* Characters and strings                                                  *)

Digitos == <<"0", "1", "2", "3", "4", "5", "6", "7", "8", "9">>

Minusculas == <<"a", "b", "c", "d", "e", "f", "g", "h", "i", "j", "k", "l", "m",
                "n", "o", "p", "q", "r", "s", "t", "u", "v", "w", "x", "y", "z",
                "á", "ã", "ç", "õ", "é", "í", "ó">>

Maiusculas == <<"A", "B", "C", "D", "E", "F", "G", "H", "I", "J", "K", "L", "M",
                "N", "O", "P", "Q", "R", "S", "T", "U", "V", "W", "X", "Y", "Z",
                "Á", "Ã", "Ç", "Õ", "É", "Í", "Ó">>

\* NFD decomposition followed by the removal of the combining marks (category Mn)
SemAcento == <<"A", "B", "C", "D", "E", "F", "G", "H", "I", "J", "K", "L", "M",
               "N", "O", "P", "Q", "R", "S", "T", "U", "V", "W", "X", "Y", "Z",
               "A", "A", "C", "O", "E", "I", "O">>

Brancos == {" ", "\n", "\t", "\r"}

Range(s) == {s[i] : i \in 1..Len(s)}

ConjuntoDigitos == Range(Digitos)
ConjuntoMinusculas == Range(Minusculas)
ConjuntoMaiusculas == Range(Maiusculas)

\* str.isdigit() of one character
EhDigito(c) == c \in ConjuntoDigitos

ValorDosDigitos == [c \in ConjuntoDigitos |-> (CHOOSE i \in 1..10 : Digitos[i] = c) - 1]

\* int(c)
ValorDigito(c) == ValorDosDigitos[c]

MaiusculaDe ==
    [c \in ConjuntoMinusculas |-> Maiusculas[CHOOSE i \in 1..Len(Minusculas) : Minusculas[i] = c]]

SemAcentoDe ==
    [c \in ConjuntoMaiusculas |-> SemAcento[CHOOSE i \in 1..Len(Maiusculas) : Maiusculas[i] = c]]

\* a digit string written as a tuple of numbers
Dg(ns) == [i \in 1..Len(ns) |-> Digitos[ns[i] + 1]]

\* str.upper() of one character
Upper(c) == IF c \in ConjuntoMinusculas THEN MaiusculaDe[c] ELSE c

UpperStr(s) == [i \in 1..Len(s) |-> Upper(s[i])]

RECURSIVE Strip(_)
\* str.strip()
Strip(s) ==
    IF s = <<>> THEN <<>>
    ELSE IF s[1] \in Brancos THEN Strip(Tail(s))
    ELSE IF s[Len(s)] \in Brancos THEN Strip(SubSeq(s, 1, Len(s) - 1))
    ELSE s

\* ''.join(filter(str.isdigit, texto))
SomenteDigitos(s) == SelectSeq(s, EhDigito)

\* Python's None, and a key that the dict does not hold
None == <<"<None>">>
Ausente == <<"<ausente>">>

\* dict.get(chave, padrao)
Get(reg, chave, padrao) == IF reg[chave] = Ausente THEN padrao ELSE reg[chave]

ValoresNulos ==
    { <<"N","O","N","E">>, <<"N","U","L","L">>, <<"N","/","A">>, <<"N","A">>,
      <<"N","A","N">> }

\* ValidadorCampos._normalizar_texto / ProcessadorValidacaoIntegrada._normalizar_texto
NormalizarTexto(valor) ==
    IF valor = None THEN <<>>
    ELSE LET texto == Strip(valor)
         IN  IF UpperStr(texto) \in ValoresNulos THEN <<>> ELSE texto

\* ValidadorCampos._normalizar_documento / ProcessadorValidacaoIntegrada._normalizar_documento
NormalizarDocumento(valor) == SomenteDigitos(NormalizarTexto(valor))

-----------------------------------------------------------------------------
(* Module 11 check digits (gerador/validators.py)                          *)

RECURSIVE SomaPonderada(_, _, _)
SomaPonderada(ds, pesos, i) ==
    IF i > Len(pesos) THEN 0
    ELSE ValorDigito(ds[i]) * pesos[i] + SomaPonderada(ds, pesos, i + 1)

DigitoVerificador(ds, pesos) ==
    LET resto == SomaPonderada(ds, pesos, 1) % 11
    IN  IF resto < 2 THEN 0 ELSE 11 - resto

PesosCpf1 == <<10, 9, 8, 7, 6, 5, 4, 3, 2>>
PesosCpf2 == <<11, 10, 9, 8, 7, 6, 5, 4, 3, 2>>
PesosCnpj1 == <<5, 4, 3, 2, 9, 8, 7, 6, 5, 4, 3, 2>>
PesosCnpj2 == <<6, 5, 4, 3, 2, 9, 8, 7, 6, 5, 4, 3, 2>>

validar_cpf(doc) ==
    /\ Len(doc) = 11
    /\ \A i \in 1..11 : EhDigito(doc[i])
    /\ ValorDigito(doc[10]) = DigitoVerificador(doc, PesosCpf1)
    /\ ValorDigito(doc[11]) = DigitoVerificador(doc, PesosCpf2)

validar_cnpj(doc) ==
    /\ Len(doc) = 14
    /\ \A i \in 1..14 : EhDigito(doc[i])
    /\ ValorDigito(doc[13]) = DigitoVerificador(doc, PesosCnpj1)
    /\ ValorDigito(doc[14]) = DigitoVerificador(doc, PesosCnpj2)

\* "0" * 14, the placeholder of an absent identifier
CnpjZerosPlaceholder == [i \in 1..14 |-> "0"]

-----------------------------------------------------------------------------
(* Field validator (validador_campos.py)                                   *)

NF_NUMERO_MIN_DIGITOS == 4
NF_NUMERO_MAX_DIGITOS == 6
CTE_NUMERO_MIN_DIGITOS == 1
CTE_NUMERO_MAX_DIGITOS == 9
NOME_MIN_CARACTERES == 3
RECEBEDOR_MIN_CARACTERES == 3

ErroValidacao(campo, mensagem, valor, severidade) ==
    [campo |-> campo, mensagem |-> mensagem, valor |-> valor, severidade |-> severidade]

\* ^\d{min,max}$ (PATTERN_NF_NUMERO, PATTERN_CTE_NUMERO)
SoDigitosEntre(s, min, max) ==
    /\ Len(s) >= min
    /\ Len(s) <= max
    /\ \A i \in 1..Len(s) : EhDigito(s[i])

RECURSIVE ValorNumerico(_)
ValorNumerico(s) ==
    IF s = <<>> THEN 0
    ELSE 10 * ValorNumerico(SubSeq(s, 1, Len(s) - 1)) + ValorDigito(s[Len(s)])

\* the positions of the "/" of a string
Barras(s) == {i \in 1..Len(s) : s[i] = "/"}

Menor(conjunto) == CHOOSE i \in conjunto : \A j \in conjunto : i <= j
Maior(conjunto) == CHOOSE i \in conjunto : \A j \in conjunto : j <= i

\* the day, month and year parts of a string with "/" at b1 and b2
PartesData(s, b1, b2) ==
    <<SubSeq(s, 1, b1 - 1), SubSeq(s, b1 + 1, b2 - 1), SubSeq(s, b2 + 1, Len(s))>>

FormatoDiaMesAno(partes) ==
    /\ SoDigitosEntre(partes[1], 1, 2)
    /\ SoDigitosEntre(partes[2], 1, 2)
    /\ SoDigitosEntre(partes[3], 4, 4)

\* PATTERN_DATA_BR: ^\d{1,2}/\d{1,2}/\d{4}$
FormatoDataBr(s) ==
    /\ Cardinality(Barras(s)) = 2
    /\ FormatoDiaMesAno(PartesData(s, Menor(Barras(s)), Maior(Barras(s))))

Bissexto(ano) == (ano % 4 = 0 /\ ano % 100 # 0) \/ ano % 400 = 0

DiasNoMes(mes, ano) ==
    IF mes = 2 THEN (IF Bissexto(ano) THEN 29 ELSE 28)
    ELSE IF mes \in {4, 6, 9, 11} THEN 30 ELSE 31

\* the day exists in the calendar (years 1 to 9999)
DiaMesAnoExiste(dia, mes, ano) ==
    /\ ano >= 1
    /\ mes >= 1
    /\ mes <= 12
    /\ dia >= 1
    /\ dia <= DiasNoMes(mes, ano)

DataDasPartes(partes) ==
    DiaMesAnoExiste(ValorNumerico(partes[1]), ValorNumerico(partes[2]), ValorNumerico(partes[3]))

\* datetime.strptime(data_str, '%d/%m/%Y') does not raise ValueError
DataExiste(s) == DataDasPartes(PartesData(s, Menor(Barras(s)), Maior(Barras(s))))

\* Each field validator returns a list of zero or one error (Optional[ErroValidacao]).

validar_nf_numero(reg) ==
    LET nf_num == NormalizarTexto(Get(reg, "nf_numero", <<>>))
    IN  IF nf_num = <<>>
        THEN <<ErroValidacao("nf_numero", "NF_NUMERO_VAZIO", <<>>, "CRITICO")>>
        ELSE IF ~SoDigitosEntre(nf_num, NF_NUMERO_MIN_DIGITOS, NF_NUMERO_MAX_DIGITOS)
        THEN <<ErroValidacao("nf_numero", "NF_NUMERO_INVALIDO", nf_num, "CRITICO")>>
        ELSE <<>>

\* ValidadorCampos._validar_data_generica
validar_data_generica(data_raw, campo_nome, msg_vazia, msg_formato, msg_invalida, severidade_vazio, severidade_formato) ==
    LET data_str == NormalizarTexto(data_raw)
    IN  IF data_str = <<>>
        THEN <<ErroValidacao(campo_nome, msg_vazia, <<>>, severidade_vazio)>>
        ELSE IF ~FormatoDataBr(data_str)
        THEN <<ErroValidacao(campo_nome, msg_formato, data_str, severidade_formato)>>
        ELSE IF ~DataExiste(data_str)
        THEN <<ErroValidacao(campo_nome, msg_invalida, data_str, "ERRO")>>
        ELSE <<>>

validar_nf_data(reg) ==
    validar_data_generica(Get(reg, "nf_data", <<>>), "nf_data", "NF_DATA_VAZIA",
                          "NF_DATA_FORMATO_INVALIDO", "NF_DATA_INVALIDA",
                          "CRITICO", "CRITICO")

validar_cte_numero(reg) ==
    LET cte_num == NormalizarTexto(Get(reg, "cte_numero", <<>>))
    IN  IF cte_num = <<>>
        THEN <<ErroValidacao("cte_numero", "CTE_NUMERO_VAZIO", <<>>, "ERRO")>>
        ELSE IF ~SoDigitosEntre(cte_num, CTE_NUMERO_MIN_DIGITOS, CTE_NUMERO_MAX_DIGITOS)
        THEN <<ErroValidacao("cte_numero", "CTE_NUMERO_INVALIDO", cte_num, "ERRO")>>
        ELSE <<>>

\* validar_cte_data leaving the severities of _validar_data_generica at their defaults
validar_cte_data_severidade_padrao(reg) ==
    validar_data_generica(Get(reg, "cte_data", <<>>), "cte_data", "CTE_DATA_VAZIA",
                          "CTE_DATA_FORMATO_INVALIDO", "CTE_DATA_INVALIDA",
                          "CRITICO", "CRITICO")

validar_cte_data(reg) ==
    validar_data_generica(Get(reg, "cte_data", <<>>), "cte_data", "CTE_DATA_VAZIA",
                          "CTE_DATA_FORMATO_INVALIDO", "CTE_DATA_INVALIDA",
                          "ERRO", "ERRO")

\* the mutant of validar_cnpj_emitente that accepts a personal id as emitter
validar_cnpj_emitente_aceita_cpf(cnpj_raw) ==
    LET cnpj == NormalizarDocumento(cnpj_raw)
    IN  IF cnpj = <<>>
        THEN <<ErroValidacao("CNPJ Emitente", "CNPJ_VAZIO", <<>>, "CRITICO")>>
        ELSE IF Len(cnpj) = 11 /\ validar_cpf(cnpj)
        THEN <<>>
        ELSE IF Len(cnpj) # 14
        THEN <<ErroValidacao("CNPJ Emitente", "EMITENTE_TAMANHO_INVALIDO", cnpj, "CRITICO")>>
        ELSE IF ~validar_cnpj(cnpj)
        THEN <<ErroValidacao("CNPJ Emitente", "CNPJ_MODULO11_FALHOU", cnpj, "CRITICO")>>
        ELSE <<>>

validar_cnpj_emitente(cnpj_raw) ==
    LET cnpj == NormalizarDocumento(cnpj_raw)
    IN  IF cnpj = <<>>
        THEN <<ErroValidacao("CNPJ Emitente", "CNPJ_VAZIO", <<>>, "CRITICO")>>
        ELSE IF Len(cnpj) = 11 /\ validar_cpf(cnpj)
        THEN <<ErroValidacao("CNPJ Emitente", "EMITENTE_ESTA_COMO_CPF", cnpj, "CRITICO")>>
        ELSE IF Len(cnpj) # 14
        THEN <<ErroValidacao("CNPJ Emitente", "EMITENTE_TAMANHO_INVALIDO", cnpj, "CRITICO")>>
        ELSE IF ~validar_cnpj(cnpj)
        THEN <<ErroValidacao("CNPJ Emitente", "CNPJ_MODULO11_FALHOU", cnpj, "CRITICO")>>
        ELSE <<>>

\* the mutant of validar_cnpj_campo that lets every other length through
validar_cnpj_campo_sem_tamanho(cnpj_raw, campo_nome) ==
    LET cnpj == NormalizarDocumento(cnpj_raw)
    IN  IF cnpj = <<>>
        THEN <<ErroValidacao(campo_nome, "CNPJ_VAZIO", <<>>, "CRITICO")>>
        ELSE IF Len(cnpj) = 11
        THEN IF ~validar_cpf(cnpj)
             THEN <<ErroValidacao(campo_nome, "CPF_MODULO11_FALHOU", cnpj, "CRITICO")>>
             ELSE <<>>
        ELSE IF Len(cnpj) = 14
        THEN IF ~validar_cnpj(cnpj)
             THEN <<ErroValidacao(campo_nome, "CNPJ_MODULO11_FALHOU", cnpj, "CRITICO")>>
             ELSE <<>>
        ELSE <<>>

\* ValidadorCampos._validar_cnpj
validar_cnpj_campo(cnpj_raw, campo_nome) ==
    LET cnpj == NormalizarDocumento(cnpj_raw)
    IN  IF cnpj = <<>>
        THEN <<ErroValidacao(campo_nome, "CNPJ_VAZIO", <<>>, "CRITICO")>>
        ELSE IF Len(cnpj) = 11
        THEN IF ~validar_cpf(cnpj)
             THEN <<ErroValidacao(campo_nome, "CPF_MODULO11_FALHOU", cnpj, "CRITICO")>>
             ELSE <<>>
        ELSE IF Len(cnpj) = 14
        THEN IF ~validar_cnpj(cnpj)
             THEN <<ErroValidacao(campo_nome, "CNPJ_MODULO11_FALHOU", cnpj, "CRITICO")>>
             ELSE <<>>
        ELSE <<ErroValidacao(campo_nome, "CNPJ_TAMANHO_INVALIDO", cnpj, "CRITICO")>>

\* the first error only when fail_fast, all of them otherwise
RECURSIVE Acumular(_, _)
Acumular(partes, ff) ==
    IF partes = <<>> THEN <<>>
    ELSE IF ff /\ partes[1] # <<>> THEN partes[1]
    ELSE partes[1] \o Acumular(Tail(partes), ff)

\* the mutant of validar_todos_cnpjs that goes through the three fields in either mode
validar_todos_cnpjs_sem_parar(reg, ff) ==
    Acumular(<< validar_cnpj_emitente(Get(reg, "emitente_cnpj", <<>>)),
                validar_cnpj_campo(Get(reg, "contratante_cnpj", <<>>), "CNPJ Contratante"),
                validar_cnpj_campo(Get(reg, "destinatario_cnpj", <<>>), "CNPJ Destinatário") >>,
             FALSE)

\* ValidadorCampos._validar_todos_cnpjs
validar_todos_cnpjs(reg, ff) ==
    Acumular(<< validar_cnpj_emitente(Get(reg, "emitente_cnpj", <<>>)),
                validar_cnpj_campo(Get(reg, "contratante_cnpj", <<>>), "CNPJ Contratante"),
                validar_cnpj_campo(Get(reg, "destinatario_cnpj", <<>>), "CNPJ Destinatário") >>,
             ff)

validar_nome(nome_raw, campo_nome) ==
    LET nome == NormalizarTexto(nome_raw)
    IN  IF nome = <<>>
        THEN <<ErroValidacao(campo_nome, "NOME_VAZIO", <<>>, "ERRO")>>
        ELSE IF Len(nome) < NOME_MIN_CARACTERES
        THEN <<ErroValidacao(campo_nome, "NOME_MUITO_CURTO", nome, "ERRO")>>
        ELSE <<>>

validar_todos_nomes(reg, ff) ==
    Acumular(<< validar_nome(Get(reg, "emitente_nome", <<>>), "Nome Emitente"),
                validar_nome(Get(reg, "contratante_nome", <<>>), "Nome Contratante"),
                validar_nome(Get(reg, "destinatario_nome", <<>>), "Nome Destinatário") >>,
             ff)

validar_recebedor(reg) ==
    LET recebedor == NormalizarTexto(Get(reg, "recebedor", <<>>))
    IN  IF recebedor = <<>>
        THEN <<ErroValidacao("recebedor", "RECEBEDOR_VAZIO", <<>>, "CRITICO")>>
        ELSE IF Len(recebedor) < RECEBEDOR_MIN_CARACTERES
        THEN <<ErroValidacao("recebedor", "RECEBEDOR_MUITO_CURTO", recebedor, "ERRO")>>
        ELSE <<>>

\* validar_registro_completo running both date rules before the transport-document
\* number rule
validar_registro_completo_datas_antes(reg, ff) ==
    Acumular(<< validar_nf_numero(reg),
                validar_nf_data(reg),
                validar_cte_data(reg),
                validar_cte_numero(reg),
                validar_todos_cnpjs(reg, ff),
                validar_todos_nomes(reg, ff),
                validar_recebedor(reg) >>,
             ff)

\* ValidadorCampos.validar_registro_completo: the list it returns
validar_registro_completo(reg, ff) ==
    Acumular(<< validar_nf_numero(reg),
                validar_nf_data(reg),
                validar_cte_numero(reg),
                validar_cte_data(reg),
                validar_todos_cnpjs(reg, ff),
                validar_todos_nomes(reg, ff),
                validar_recebedor(reg) >>,
             ff)

-----------------------------------------------------------------------------
(* Regular expressions (re.search), as far as the patterns of the code need *)

\* A pattern is a sequence of elements [cls, q]: a character class and a quantifier
\* "1" (exactly one), "?" (optional) or "*" (any number).  Classes hold the upper-case
\* form of their characters; a text character is upper-cased before the comparison
\* when the search ignores case.
Um(cls) == <<[cls |-> cls, q |-> "1"]>>
Opc(cls) == <<[cls |-> cls, q |-> "?"]>>
Varios(cls) == <<[cls |-> cls, q |-> "*"]>>
Lit(s) == [i \in 1..Len(s) |-> [cls |-> {s[i]}, q |-> "1"]]

RECURSIVE CasaEm(_, _, _, _, _)
\* the elements j.. of pattern p match text t from position i on
CasaEm(t, i, p, j, ignorecase) ==
    IF j > Len(p) THEN TRUE
    ELSE LET e == p[j]
             ok == i <= Len(t) /\ (IF ignorecase THEN Upper(t[i]) ELSE t[i]) \in e.cls
         IN  CASE e.q = "1" -> ok /\ CasaEm(t, i + 1, p, j + 1, ignorecase)
               [] e.q = "?" -> \/ (ok /\ CasaEm(t, i + 1, p, j + 1, ignorecase))
                               \/ CasaEm(t, i, p, j + 1, ignorecase)
               [] e.q = "*" -> \/ (ok /\ CasaEm(t, i + 1, p, j, ignorecase))
                               \/ CasaEm(t, i, p, j + 1, ignorecase)

\* bool(re.search(alt1|alt2|..., t, re.IGNORECASE))
Busca(alternativas, t) ==
    \E a \in alternativas : \E i \in 1..(Len(t) + 1) : CasaEm(t, i, a, 1, TRUE)

-----------------------------------------------------------------------------
(* Structure validator (validador_estrutura_pdf.py)                        *)

\* LABELS_OBRIGATORIOS_PDF, in the order of the dict
NomesLabels == <<"EMITENTE", "DESTINATARIO", "CONTRATANTE", "CTE", "CNPJ_CPF">>

PadraoLabel(nome) ==
    CASE nome = "EMITENTE" ->
            { Lit(<<"E","M","I","T","E","N","T","E">>) }
      [] nome = "DESTINATARIO" ->
            { Lit(<<"D","E","S","T","I","N","A","T">>) \o Um({"Á", "A"})
                \o Lit(<<"R","I","O">>) }
      [] nome = "CONTRATANTE" ->
            { Lit(<<"C","O","N","T","R","A">>) \o Um({"N", "T"}) \o Lit(<<"E">>),
              Lit(<<"C","O","N","T","R","A","N","T","E">>) }
      [] nome = "CTE" ->
            { Lit(<<"C","T">>) \o Opc({"-"}) \o Lit(<<"E">>),
              Lit(<<"N">>) \o Um({"º", "°"}) \o Varios(Brancos) \o Lit(<<"C","T">>) }
      [] nome = "CNPJ_CPF" ->
            { Lit(<<"C","N","P","J">>) \o Opc({"/"} \cup Brancos) \o Lit(<<"C","P","F">>),
              Lit(<<"C","P","F">>) \o Opc({"/"} \cup Brancos) \o Lit(<<"C","N","P","J">>),
              Lit(<<"D","O","C","U","M","E","N","T","O">>) }

\* the loop of validar_estrutura / validar_estrutura_silencioso over the labels
ProcurarLabels(texto) ==
    [nome \in Range(NomesLabels) |-> Busca(PadraoLabel(nome), texto)]

\* the mutant of LabelsFaltando that stops at the first missing label
LabelsFaltandoSoPrimeiro(encontrados) ==
    LET todos == SelectSeq(NomesLabels, LAMBDA nome : ~encontrados[nome])
    IN  IF todos = <<>> THEN <<>> ELSE <<todos[1]>>

\* labels_faltando after the loop: the labels not found, in dict order
LabelsFaltando(encontrados) ==
    SelectSeq(NomesLabels, LAMBDA nome : ~encontrados[nome])

\* what validar_estrutura returns or raises
\* (the message of the ValueError is the list of the labels it names)
ResultadoEstrutura(faltando) ==
    IF faltando # <<>>
    THEN [op |-> "validar_estrutura", tipo |-> "ValueError", labels_faltando |-> faltando]
    ELSE [op |-> "validar_estrutura", tipo |-> "True", labels_faltando |-> <<>>]

\* no call made yet
SemRetorno == [op |-> "nenhuma", tipo |-> "nenhum", labels_faltando |-> <<>>]

-----------------------------------------------------------------------------
(* Correction engine and audit (processador_validacao_integrada.py)        *)

LetrasAscii == {Maiusculas[i] : i \in 1..26}

\* one character of a name key: upper-cased, without its accent, and a space for
\* whatever is not A-Z or 0-9
CaractereChave(c) ==
    LET u == Upper(c)
        b == IF u \in ConjuntoMaiusculas THEN SemAcentoDe[u] ELSE u
    IN  IF b \in LetrasAscii \/ EhDigito(b) THEN b ELSE " "

RECURSIVE ColapsarEspacos(_)
\* re.sub(r"\s+", " ", texto), on a text whose only blanks are spaces
ColapsarEspacos(s) ==
    IF Len(s) < 2 THEN s
    ELSE IF s[1] = " " /\ s[2] = " " THEN ColapsarEspacos(Tail(s))
    ELSE <<s[1]>> \o ColapsarEspacos(Tail(s))

\* _normalizar_nome_chave replacing every character that is not A-Z or 0-9 by a space
\* of its own
NormalizarNomeChaveSemColapso(valor) ==
    LET texto == NormalizarTexto(valor)
    IN  IF texto = <<>> THEN <<>>
        ELSE Strip([i \in 1..Len(texto) |-> CaractereChave(texto[i])])

\* ProcessadorValidacaoIntegrada._normalizar_nome_chave
NormalizarNomeChave(valor) ==
    LET texto == NormalizarTexto(valor)
    IN  IF texto = <<>> THEN <<>>
        ELSE Strip(ColapsarEspacos([i \in 1..Len(texto) |-> CaractereChave(texto[i])]))

\* the (identifier field, name field, label) triples of the three roles
CamposIndice ==
    << <<"emitente_cnpj", "emitente_nome">>,
       <<"contratante_cnpj", "contratante_nome">>,
       <<"destinatario_cnpj", "destinatario_nome">> >>

CamposCorrecao ==
    << <<"destinatario_cnpj", "destinatario_nome">>,
       <<"contratante_cnpj", "contratante_nome">>,
       <<"emitente_cnpj", "emitente_nome">> >>

NomeDoDocumento(chave_doc) ==
    CASE chave_doc = "emitente_cnpj" -> "emitente_nome"
      [] chave_doc = "contratante_cnpj" -> "contratante_nome"
      [] chave_doc = "destinatario_cnpj" -> "destinatario_nome"

TAMANHO_MIN_NOME_BUSCA == 8
TAMANHO_MIN_NOME_APROXIMADO == 12

\* the mutant of ObservacaoIndice that indexes every name, however short
ObservacaoIndiceSemTamanho(reg, chave_doc) ==
    LET doc == NormalizarDocumento(Get(reg, chave_doc, <<>>))
    IN  Len(doc) = 14 /\ doc # CnpjZerosPlaceholder

\* the condition under which _construir_indice_documentos records an observation
ObservacaoIndice(reg, chave_doc) ==
    LET doc == NormalizarDocumento(Get(reg, chave_doc, <<>>))
        nome == NormalizarNomeChave(Get(reg, NomeDoDocumento(chave_doc), <<>>))
    IN  Len(doc) = 14 /\ doc # CnpjZerosPlaceholder /\ Len(nome) >= TAMANHO_MIN_NOME_BUSCA

\* ProcessadorValidacaoIntegrada._construir_indice_documentos: for each identifier
\* field, name key -> Counter of the identifiers seen with it in the batch
ConstruirIndiceDocumentos(regs) ==
    [chave_doc \in {"emitente_cnpj", "contratante_cnpj", "destinatario_cnpj"} |->
        LET obs == {i \in 1..Len(regs) : ObservacaoIndice(regs[i], chave_doc)}
            nomeDe(i) == NormalizarNomeChave(Get(regs[i], NomeDoDocumento(chave_doc), <<>>))
            docDe(i) == NormalizarDocumento(Get(regs[i], chave_doc, <<>>))
        IN  [nome \in {nomeDe(i) : i \in obs} |->
                [doc \in {docDe(i) : i \in {j \in obs : nomeDe(j) = nome}} |->
                    Cardinality({i \in obs : nomeDe(i) = nome /\ docDe(i) = doc})]]]

\* a in b, for strings
Contem(maior, menor) ==
    \E i \in 0..(Len(maior) - Len(menor)) : SubSeq(maior, i + 1, i + Len(menor)) = menor

\* BaseConhecimentoNomes.buscar_cnpj_por_nome(nome_chave, campo=...)
BuscarCnpjPorNomeBase(base, nome_chave, campo) ==
    IF <<campo, nome_chave>> \in DOMAIN base.cnpj_por_nome
    THEN base.cnpj_por_nome[<<campo, nome_chave>>]
    ELSE None

\* BaseConhecimentoNomes.buscar_nome_por_cnpj(cnpj)
BuscarNomePorCnpjBase(base, cnpj) ==
    IF cnpj \in DOMAIN base.nome_por_cnpj THEN base.nome_por_cnpj[cnpj] ELSE None

CampoAprendizado(chave_doc) ==
    CASE chave_doc = "emitente_cnpj" -> "emitente"
      [] chave_doc = "contratante_cnpj" -> "contratante"
      [] chave_doc = "destinatario_cnpj" -> "destinatario"

\* the identifiers of the index entries whose name contains, or is contained in, the key
CandidatosAproximados(indice_campo, nome_chave) ==
    UNION { DOMAIN indice_campo[nome_idx] :
              nome_idx \in {n \in DOMAIN indice_campo :
                               IF Len(nome_chave) <= Len(n)
                               THEN Contem(n, nome_chave)
                               ELSE Contem(nome_chave, n)} }

\* the identifiers the index holds under exactly this name key
DocsExatos(indice_campo, nome_chave) ==
    IF nome_chave \in DOMAIN indice_campo THEN DOMAIN indice_campo[nome_chave] ELSE {}

\* the mutant of EscolherDocumento that takes one of several candidates
EscolherDocumentoPrimeiro(docs_exatos, candidatos, da_base) ==
    IF docs_exatos # {} THEN CHOOSE d \in docs_exatos : TRUE
    ELSE IF candidatos # {} THEN CHOOSE d \in candidatos : TRUE
    ELSE da_base

\* the priorities of _buscar_documento_por_nome: a single exact match, then a single
\* approximate match, then whatever the knowledge base answers
EscolherDocumento(docs_exatos, candidatos, da_base) ==
    IF Cardinality(docs_exatos) = 1 THEN CHOOSE d \in docs_exatos : TRUE
    ELSE IF Cardinality(candidatos) = 1 THEN CHOOSE d \in candidatos : TRUE
    ELSE da_base

\* _buscar_documento_por_nome, from the normalized name key on
BuscarDocumentoPorChave(indice_campo, base, chave_doc, nome_chave) ==
    IF Len(nome_chave) < TAMANHO_MIN_NOME_BUSCA THEN None
    ELSE EscolherDocumento(
            DocsExatos(indice_campo, nome_chave),
            IF Len(nome_chave) >= TAMANHO_MIN_NOME_APROXIMADO
            THEN CandidatosAproximados(indice_campo, nome_chave) ELSE {},
            BuscarCnpjPorNomeBase(base, nome_chave, CampoAprendizado(chave_doc)))

\* _buscar_documento_por_nome looking the name up in the index of the emitters,
\* whatever the role
BuscarDocumentoPorNomeSemPapel(indice, base, chave_doc, nome) ==
    BuscarDocumentoPorChave(indice["emitente_cnpj"], base, chave_doc,
                            NormalizarNomeChave(nome))

\* ProcessadorValidacaoIntegrada._buscar_documento_por_nome
BuscarDocumentoPorNome(indice, base, chave_doc, nome) ==
    BuscarDocumentoPorChave(indice[chave_doc], base, chave_doc, NormalizarNomeChave(nome))

\* the identifier is taken as absent by _tentar_corrigir_dados
DocumentoAusente(cnpj) == cnpj = <<>> \/ cnpj = CnpjZerosPlaceholder

\* the mutant of NomeAusente that also takes two-character names as absent
NomeAusenteAteDois(nome) == Len(nome) < 3

\* the name is taken as absent by _tentar_corrigir_dados
NomeAusente(nome) == Len(nome) < 2

\* truthiness of an Optional[str]
Verdadeiro(v) == v # None /\ v # <<>>

\* doc_inferido of one iteration of _tentar_corrigir_dados (None when not looked up)
DocInferido(indice, base, chave_cnpj, cnpj, nome) ==
    IF DocumentoAusente(cnpj) /\ Len(nome) >= TAMANHO_MIN_NOME_BUSCA
    THEN BuscarDocumentoPorNome(indice, base, chave_cnpj, nome)
    ELSE None

\* nome_base of one iteration of _tentar_corrigir_dados (None when not looked up)
NomeInferido(base, cnpj, nome) ==
    IF Len(cnpj) = 14 /\ NomeAusente(nome) THEN BuscarNomePorCnpjBase(base, cnpj) ELSE None

\* nf[chave] = valor; corrigiu = True, when the lookup gave something
Gravar(res, chave, valor) ==
    IF Verdadeiro(valor)
    THEN [nf |-> [res.nf EXCEPT ![chave] = valor], corrigiu |-> TRUE]
    ELSE res

\* the second half of an iteration: the name, looked up by the identifier at hand
InferirNome(res, base, chave_cnpj, chave_nome, cnpj, nome, doc_inferido) ==
    Gravar(Gravar(res, chave_cnpj, doc_inferido), chave_nome,
           NomeInferido(base, IF Verdadeiro(doc_inferido) THEN doc_inferido ELSE cnpj, nome))

\* the first half of an iteration: the identifier, looked up by the name
InferirDocumento(res, indice, base, chave_cnpj, chave_nome, cnpj, nome) ==
    InferirNome(res, base, chave_cnpj, chave_nome, cnpj, nome,
                DocInferido(indice, base, chave_cnpj, cnpj, nome))

\* one iteration of the loop of _tentar_corrigir_dados, on (record, corrigiu)
CorrigirCampo(res, indice, base, chave_cnpj, chave_nome) ==
    InferirDocumento(res, indice, base, chave_cnpj, chave_nome,
                     NormalizarDocumento(Get(res.nf, chave_cnpj, <<>>)),
                     NormalizarTexto(Get(res.nf, chave_nome, <<>>)))

RECURSIVE CorrigirCampos(_, _, _, _)
CorrigirCampos(res, indice, base, campos) ==
    IF campos = <<>> THEN res
    ELSE CorrigirCampos(CorrigirCampo(res, indice, base, campos[1][1], campos[1][2]),
                        indice, base, Tail(campos))

\* ProcessadorValidacaoIntegrada._tentar_corrigir_dados: the record after the call
\* and the value the call returns
TentarCorrigirDados(nf, indice, base) ==
    CorrigirCampos([nf |-> nf, corrigiu |-> FALSE], indice, base, CamposCorrecao)

AjusteManual(nf_num, tipo, mensagem, campo) ==
    [nf |-> nf_num, tipo |-> tipo, mensagem |-> mensagem, campo |-> campo]

\* check 1 of _auditar_para_humano: a personal id where a company id is expected
AuditarCpfNoLugarDeCnpj(nf, nf_num) ==
    LET ajuste(chave) ==
            LET doc == NormalizarDocumento(Get(nf, chave, <<>>))
            IN  IF Len(doc) = 11 /\ validar_cpf(doc)
                THEN <<AjusteManual(nf_num, "ACAO_NECESSARIA", "E_CPF_AO_INVES_DE_CNPJ", chave)>>
                ELSE <<>>
    IN  ajuste("contratante_cnpj") \o ajuste("destinatario_cnpj")

\* the mutant of AuditarSemNome that reports the identifier that is missing
AuditarSemNomeSemDocumento(nf, nf_num) ==
    LET ajuste(par) ==
            LET nome == NormalizarTexto(Get(nf, par[2], <<>>))
                cnpj == NormalizarDocumento(Get(nf, par[1], <<>>))
            IN  IF cnpj = <<>> /\ (nome = <<>> \/ Len(nome) < 2)
                THEN <<AjusteManual(nf_num, "ATENCAO", "CNPJ_ESTA_SEM_NOME", par[1])>>
                ELSE <<>>
    IN  ajuste(CamposCorrecao[1]) \o ajuste(CamposCorrecao[2]) \o ajuste(CamposCorrecao[3])

\* check 2 of _auditar_para_humano: an identifier still without its name
AuditarSemNome(nf, nf_num) ==
    LET ajuste(par) ==
            LET nome == NormalizarTexto(Get(nf, par[2], <<>>))
                cnpj == NormalizarDocumento(Get(nf, par[1], <<>>))
            IN  IF cnpj # <<>> /\ (nome = <<>> \/ Len(nome) < 2)
                THEN <<AjusteManual(nf_num, "ATENCAO", "CNPJ_ESTA_SEM_NOME", par[1])>>
                ELSE <<>>
    IN  ajuste(CamposCorrecao[1]) \o ajuste(CamposCorrecao[2]) \o ajuste(CamposCorrecao[3])

\* the mutant of AuditarEmitente that lets a personal id through
AuditarEmitenteAceitaCpf(nf, nf_num) ==
    LET cnpj_emitente == NormalizarDocumento(Get(nf, "emitente_cnpj", <<>>))
    IN  IF cnpj_emitente = <<>> THEN <<>>
        ELSE IF Len(cnpj_emitente) = 11 /\ validar_cpf(cnpj_emitente)
        THEN <<>>
        ELSE IF Len(cnpj_emitente) # 14
        THEN <<AjusteManual(nf_num, "ACAO_NECESSARIA", "EMITENTE_TAMANHO_INVALIDO", "emitente_cnpj")>>
        ELSE IF ~validar_cnpj(cnpj_emitente)
        THEN <<AjusteManual(nf_num, "ACAO_NECESSARIA", "EMITENTE_INVALIDO", "emitente_cnpj")>>
        ELSE <<>>

\* check 3 of _auditar_para_humano: the emitter identifier
AuditarEmitente(nf, nf_num) ==
    LET cnpj_emitente == NormalizarDocumento(Get(nf, "emitente_cnpj", <<>>))
    IN  IF cnpj_emitente = <<>> THEN <<>>
        ELSE IF Len(cnpj_emitente) = 11 /\ validar_cpf(cnpj_emitente)
        THEN <<AjusteManual(nf_num, "ACAO_NECESSARIA", "EMITENTE_ESTA_COMO_CPF", "emitente_cnpj")>>
        ELSE IF Len(cnpj_emitente) # 14
        THEN <<AjusteManual(nf_num, "ACAO_NECESSARIA", "EMITENTE_TAMANHO_INVALIDO", "emitente_cnpj")>>
        ELSE IF ~validar_cnpj(cnpj_emitente)
        THEN <<AjusteManual(nf_num, "ACAO_NECESSARIA", "EMITENTE_INVALIDO", "emitente_cnpj")>>
        ELSE <<>>

NaoInformado == <<"N", "/", "A">>

\* ProcessadorValidacaoIntegrada._auditar_para_humano: the adjustments it registers,
\* in order (each one increments ajustes_manuais_count and is sent to callback_event)
AuditarParaHumano(nf) ==
    LET nf_num == Get(nf, "nf_numero", NaoInformado)
    IN  AuditarCpfNoLugarDeCnpj(nf, nf_num) \o AuditarSemNome(nf, nf_num)
            \o AuditarEmitente(nf, nf_num)

\* ProcessadorValidacaoIntegrada.__init__: counters at zero, empty caches
InitProcessador ==
    /\ registros_corrigidos_count = 0
    /\ registros_com_erros_count = 0
    /\ registros_com_erros_criticos_count = 0
    /\ total_erros_encontrados = 0
    /\ ajustes_manuais_count = 0
    /\ erros_por_nf = <<>>
    /\ indice_docs_por_nome = <<>>
    /\ eventos = <<>>
    /\ nfs_finais = <<>>
    /\ idx = 0
    /\ execucoes = 0

\* no extraction at hand
SemExtracao ==
    /\ funcao_chamada = "nenhuma"
    /\ texto_entrada = <<>>
    /\ tokens = <<>>
    /\ idx_token = 0
    /\ candidatos_validos = {}
    /\ cnpj_extraido = None
    /\ montados = 0

\* no line at hand
SemLinha ==
    /\ campos_linha = <<>>
    /\ linha_txt = <<>>
    /\ registro_txt = <<>>
    /\ linhas_txt = <<>>
    /\ idx_linha = 0

\* no name at hand
SemNome ==
    /\ nome_entrada = <<>>
    /\ chave_devolvida = <<>>

\* no two calls under way
SemExecucoes ==
    /\ lote_exec = <<>>
    /\ pc_exec = <<>>
    /\ idx_exec = <<>>

\* no batch at hand
SemLote ==
    /\ InitProcessador
    /\ validar_estrutura_pdf_flag = TRUE
    /\ base_conhecimento = [cnpj_por_nome |-> <<>>, nome_por_cnpj |-> <<>>]
    /\ registros = <<>>
    /\ nfs_extraidas = <<>>
    /\ estado = <<>>
    /\ lote_inicial = <<>>

-----------------------------------------------------------------------------
(* Inputs of the field validator                                           *)

\* the check digits of a 9-digit base, appended
ComDigitosCpf(base) ==
    LET d1 == DigitoVerificador(base, PesosCpf1)
        b10 == Append(base, Digitos[d1 + 1])
    IN  Append(b10, Digitos[DigitoVerificador(b10, PesosCpf2) + 1])

\* the same base with a wrong last digit
ComDigitoErrado(doc) ==
    [doc EXCEPT ![Len(doc)] = Digitos[((ValorDigito(doc[Len(doc)]) + 1) % 10) + 1]]

BasesCpf ==
    { Dg(<<3,9,0,5,3,3,4,4,7>>), Dg(<<4,1,3,0,3,0,8,2,8>>), Dg(<<1,2,3,4,5,6,7,8,9>>),
      Dg(<<0,0,0,0,0,0,0,0,1>>), Dg(<<9,8,7,6,5,4,3,2,1>>), Dg(<<5,2,9,9,8,2,2,4,7>>) }

CpfsValidos == {ComDigitosCpf(b) : b \in BasesCpf}
CpfsInvalidos == {ComDigitoErrado(c) : c \in CpfsValidos}

CnpjA == Dg(<<1,1,2,2,2,3,3,3,0,0,0,1,8,1>>)
CnpjB == Dg(<<9,2,6,6,0,4,0,6,0,0,7,6,3,6>>)
CnpjInvalido == Dg(<<1,1,2,2,2,3,3,3,0,0,0,1,8,2>>)
CnpjZeros == Dg(<<0,0,0,0,0,0,0,0,0,0,0,0,0,0>>)
CnpjAFormatado ==
    <<"1","1",".","2","2","2",".","3","3","3","/","0","0","0","1","-","8","1">>
CpfFormatado ==
    <<"3","9","0",".","5","3","3",".","4","4","7","-","0","5">>

DocsTamanhoErrado ==
    { Dg(<<1,2,3>>), Dg(<<1,2,3,4,5,6,7,8,9,0>>), Dg(<<1,1,2,2,2,3,3,3,0,0,0,1>>),
      Dg(<<1,1,2,2,2,3,3,3,0,0,0,1,8,1,0>>), <<"1","2","-","3"," ">> }

DocsVazios == { <<>>, None, Ausente, <<" ">>, <<"N","/","A">>, <<"n","o","n","e">> }

DocsValidador ==
    CpfsValidos \cup CpfsInvalidos \cup DocsTamanhoErrado \cup DocsVazios
    \cup {CnpjA, CnpjB, CnpjInvalido, CnpjZeros, CnpjAFormatado, CpfFormatado}

NomeAlfa == <<"A","L","F","A"," ","L","T","D","A">>
NomeBeta == <<"B","e","t","a"," ","S",".","A",".">>
NomeCurto == <<"A","B">>

RegistroBase ==
    [ nf_numero |-> Dg(<<1,2,3,4,5>>),
      nf_data |-> <<"1","5","/","0","3","/","2","0","2","4">>,
      cte_numero |-> Dg(<<9,8,7>>),
      cte_data |-> <<"2","9","/","0","2","/","2","0","2","4">>,
      emitente_cnpj |-> CnpjA,
      emitente_nome |-> NomeAlfa,
      contratante_cnpj |-> CnpjB,
      contratante_nome |-> NomeBeta,
      destinatario_cnpj |-> CnpjA,
      destinatario_nome |-> NomeAlfa,
      recebedor |-> <<"J","O","A","O">> ]

\* records whose three identifier fields range over every document of the family
RegistrosDocumentos ==
    { [RegistroBase EXCEPT !.emitente_cnpj = e, !.contratante_cnpj = c,
                           !.destinatario_cnpj = d] :
        e \in DocsValidador, c \in {CnpjB, <<>>} \cup CpfsValidos, d \in {CnpjA} }
    \cup
    { [RegistroBase EXCEPT !.contratante_cnpj = c, !.destinatario_cnpj = d] :
        c \in DocsValidador, d \in {CnpjA, Dg(<<1,2,3>>)} \cup CpfsValidos }
    \cup
    { [RegistroBase EXCEPT !.emitente_cnpj = e, !.destinatario_cnpj = d] :
        e \in {CnpjA, <<>>}, d \in DocsValidador }

NumerosNf == { Dg(<<1,2,3,4,5>>), <<>>, Ausente, Dg(<<1,2,3>>), <<"1","2","3","4","A">> }
Datas ==
    { <<"1","5","/","0","3","/","2","0","2","4">>, <<>>, None,
      <<"3","1","/","0","2","/","2","0","2","4">>,
      <<"2","9","/","0","2","/","2","0","2","3">>,
      <<"1","/","2","/","2","0","2","4">>,
      <<"2","0","2","4","-","0","3","-","1","5">> }
NumerosCte == { Dg(<<9,8,7>>), <<>>, Dg(<<1,2,3,4,5,6,7,8,9,0>>) }
NomesValidador == { NomeAlfa, <<>>, NomeCurto }
Recebedores == { <<"J","O","A","O">>, <<>>, <<"J","O">>, <<"N","U","L","L">> }

\* records whose other fields vary, one identifier at a time
RegistrosCampos ==
    { [RegistroBase EXCEPT !.nf_numero = n, !.nf_data = nd, !.cte_numero = cn,
                           !.cte_data = cd, !.emitente_cnpj = e, !.emitente_nome = en,
                           !.destinatario_nome = dn, !.recebedor = r] :
        n \in NumerosNf, nd \in Datas, cn \in NumerosCte,
        cd \in {<<"2","9","/","0","2","/","2","0","2","4">>, <<>>,
                 <<"3","1","/","0","4","/","2","0","2","4">>, <<"x">>},
        e \in {CnpjA, CnpjInvalido, ComDigitosCpf(Dg(<<3,9,0,5,3,3,4,4,7>>))},
        en \in {NomeAlfa, <<>>},
        dn \in {NomeAlfa, NomeCurto}, r \in {<<"J","O","A","O">>, <<>>, <<"J","O">>} }

RegistrosValidador == RegistrosDocumentos \cup RegistrosCampos

-----------------------------------------------------------------------------
(* The field validator applied to one record                               *)

InitValidador ==
    /\ pc = "validar"
    /\ fail_fast \in BOOLEAN
    /\ registro \in RegistrosValidador
    /\ erros_encontrados = <<>>
    /\ texto_pagina = <<>>
    /\ labels_encontrados = <<>>
    /\ labels_faltando = <<>>
    /\ retorno = SemRetorno
    /\ chamadas = 0
    /\ SemLote
    /\ SemExtracao
    /\ SemLinha
    /\ SemNome
    /\ SemExecucoes

\* ValidarRegistro writing the normalized document date back into the record
ValidarRegistroNormalizando ==
    /\ pc = "validar"
    /\ erros_encontrados' = validar_registro_completo(registro, fail_fast)
    /\ registro' = [registro EXCEPT !.nf_data = NormalizarTexto(Get(registro, "nf_data", <<>>))]
    /\ pc' = "validado"
    /\ UNCHANGED <<fail_fast, retorno>>
    /\ UNCHANGED varsEstrutura
    /\ UNCHANGED varsLote
    /\ UNCHANGED varsExtrator
    /\ UNCHANGED <<varsParser, varsNome, varsExecucoes>>

\* one call of ValidadorCampos.validar_registro_completo
ValidarRegistro ==
    /\ pc = "validar"
    /\ erros_encontrados' = validar_registro_completo(registro, fail_fast)
    /\ pc' = "validado"
    /\ UNCHANGED <<fail_fast, registro, retorno>>
    /\ UNCHANGED varsEstrutura
    /\ UNCHANGED varsLote
    /\ UNCHANGED varsExtrator
    /\ UNCHANGED <<varsParser, varsNome, varsExecucoes>>

NextValidador == ValidarRegistro

SpecValidador == InitValidador /\ [][NextValidador]_vars

-----------------------------------------------------------------------------
(* The structure validator called on page texts                            *)

MaxChamadas == 2

Junta(a, b) == a \o <<"\n">> \o b

\* page texts: one line per section, each in a form that carries the label, in another
\* such form, or in a form that does not
LinhasEmitente ==
    { <<"E","M","I","T","E","N","T","E",":">>, <<"E","m","i","t","e","n","t","e">>,
      <<"R","E","M","E","T","E","N","T","E">> }
LinhasDestinatario ==
    { <<"D","E","S","T","I","N","A","T","Á","R","I","O">>,
      <<"d","e","s","t","i","n","a","t","a","r","i","o">>,
      <<"D","E","S","T","I","N","O">> }
LinhasContratante ==
    { <<"C","O","N","T","R","A","N","T","E">>, <<"c","o","n","t","r","a","t","e">>,
      <<"C","O","N","T","R","A","T","A","N","T","E">> }
LinhasCte ==
    { <<"C","T","-","e"," ","1","2","3">>, <<"N","º"," "," ","C","T">>,
      <<"C","T"," ","E">> }
LinhasDocumento ==
    { <<"C","N","P","J","/","C","P","F",":">>, <<"D","o","c","u","m","e","n","t","o">>,
      <<"C","N","P","J","-","C","P","F">> }

TextosPagina ==
    { Junta(e, Junta(d, Junta(c, Junta(t, n)))) :
        e \in LinhasEmitente, d \in LinhasDestinatario, c \in LinhasContratante,
        t \in LinhasCte, n \in LinhasDocumento }

\* the labels found in each page text
LabelsDoTexto == [t \in TextosPagina |-> ProcurarLabels(t)]

InitEstrutura ==
    /\ pc = "estrutura"
    /\ fail_fast = FALSE
    /\ registro = <<>>
    /\ erros_encontrados = <<>>
    /\ texto_pagina = <<>>
    /\ labels_encontrados = <<>>
    /\ labels_faltando = <<>>
    /\ retorno = SemRetorno
    /\ chamadas = 0
    /\ SemLote
    /\ SemExtracao
    /\ SemLinha
    /\ SemNome
    /\ SemExecucoes

\* ValidadorEstruturaPDF.validar_estrutura(texto)
ValidarEstrutura(texto) ==
    /\ pc = "estrutura"
    /\ chamadas < MaxChamadas
    /\ chamadas' = chamadas + 1
    /\ texto_pagina' = texto
    /\ labels_encontrados' = LabelsDoTexto[texto]
    /\ labels_faltando' = LabelsFaltando(LabelsDoTexto[texto])
    /\ retorno' = ResultadoEstrutura(labels_faltando')
    /\ UNCHANGED <<pc, fail_fast>>
    /\ UNCHANGED varsValidador
    /\ UNCHANGED varsLote
    /\ UNCHANGED varsExtrator
    /\ UNCHANGED <<varsParser, varsNome, varsExecucoes>>

\* ValidadorEstruturaPDF.validar_estrutura_silencioso(texto)
ValidarEstruturaSilencioso(texto) ==
    /\ pc = "estrutura"
    /\ chamadas < MaxChamadas
    /\ chamadas' = chamadas + 1
    /\ texto_pagina' = texto
    /\ labels_encontrados' = LabelsDoTexto[texto]
    /\ retorno' = [op |-> "validar_estrutura_silencioso", tipo |-> "labels_encontrados",
                   labels_faltando |-> <<>>]
    /\ UNCHANGED <<pc, fail_fast, labels_faltando>>
    /\ UNCHANGED varsValidador
    /\ UNCHANGED varsLote
    /\ UNCHANGED varsExtrator
    /\ UNCHANGED <<varsParser, varsNome, varsExecucoes>>

NextEstrutura ==
    \E texto \in TextosPagina :
        \/ ValidarEstrutura(texto)
        \/ ValidarEstruturaSilencioso(texto)

SpecEstrutura == InitEstrutura /\ [][NextEstrutura]_vars

-----------------------------------------------------------------------------
(* The batch pipeline: validar_estrutura_pdf, then filtrar_dados_validos     *)

MaxLote == 3
MaxExecucoes == 2

NomeXA == <<"T","R","A","N","S","P","O","R","T","E","S"," ","X","A">>
NomeXAVariante == <<"T","r","a","n","s","p","o","r","t","e","s"," "," ","X","á",".">>
NomeX == <<"T","R","A","N","S","P","O","R","T","E","S"," ","X">>
NomeXB == <<"T","R","A","N","S","P","O","R","T","E","S"," ","X","B">>
NomeAcmeLtda == <<"A","C","M","E"," ","L","T","D","A">>
NomeAcme == <<"A","C","M","E">>
NomeUmaLetra == <<"A">>
NomeJoao == <<"J","O","A","O"," ","D","A"," ","S","I","L","V","A">>
NomeDaBase == <<"A","L","F","A"," ","T","R","A","N","S","P","O","R","T","E","S">>
Isento == <<"I","S","E","N","T","O">>
CpfJoao == ComDigitosCpf(Dg(<<3,9,0,5,3,3,4,4,7>>))

\* a record of the batch: document number and the (identifier, name) of each role
Registro(nf_numero, e, c, d) ==
    [RegistroBase EXCEPT !.nf_numero = nf_numero,
                         !.emitente_cnpj = e[1], !.emitente_nome = e[2],
                         !.contratante_cnpj = c[1], !.contratante_nome = c[2],
                         !.destinatario_cnpj = d[1], !.destinatario_nome = d[2]]

CatalogoRegistros ==
    { Registro(Dg(<<1,0,0,1>>), <<CnpjA, NomeXA>>, <<CnpjA, NomeXA>>, <<CnpjA, NomeXA>>),
      Registro(Dg(<<1,0,0,2>>), <<CnpjA, NomeCurto>>, <<CnpjB, NomeXB>>, <<CnpjB, NomeXAVariante>>),
      Registro(Dg(<<1,0,0,1>>), <<<<>>, NomeAcmeLtda>>, <<CpfJoao, NomeJoao>>, <<<<>>, NomeXA>>),
      Registro(Ausente, <<CnpjA, <<>>>>, <<<<>>, NomeX>>, <<None, NomeX>>),
      Registro(Dg(<<1,0,0,3>>), <<CnpjInvalido, NomeXB>>, <<CnpjB, NomeXB>>, <<CnpjZeros, NomeXB>>),
      Registro(None, <<CpfJoao, NomeJoao>>, <<Dg(<<1,2,3>>), NaoInformado>>,
               <<CnpjAFormatado, NomeUmaLetra>>),
      Registro(Dg(<<1,0,0,4>>), <<Isento, NomeXA>>, <<<<>>, NomeXA>>, <<CnpjInvalido, NomeX>>),
      Registro(Dg(<<1,0,0,5>>), <<Dg(<<1,2,3>>), NomeXA>>, <<<<>>, NomeAcme>>, <<CnpjB, NomeXB>>) }

RECURSIVE LotesDe(_)
LotesDe(n) ==
    IF n = 0 THEN {<<>>}
    ELSE {Append(lote, r) : lote \in LotesDe(n - 1), r \in CatalogoRegistros}

Lotes == UNION { LotesDe(n) : n \in 0..MaxLote }

BaseVazia == [cnpj_por_nome |-> <<>>, nome_por_cnpj |-> <<>>]

\* a knowledge base that has learnt a recipient, a contractor, an emitter and the
\* name of one company
BaseAprendida ==
    [ cnpj_por_nome |->
        [ par \in { <<"destinatario", NormalizarNomeChave(NomeX)>>,
                    <<"contratante", NormalizarNomeChave(NomeX)>>,
                    <<"emitente", NormalizarNomeChave(NomeAcmeLtda)>> } |->
            IF par[1] = "emitente" THEN CnpjA ELSE CnpjB ],
      nome_por_cnpj |-> [ cnpj \in {CnpjA} |-> NomeDaBase ] ]

TextoComLabels ==
    Junta(<<"E","M","I","T","E","N","T","E",":">>,
    Junta(<<"D","E","S","T","I","N","A","T","Á","R","I","O">>,
    Junta(<<"C","O","N","T","R","A","N","T","E">>,
    Junta(<<"C","T","-","e"," ","1","2","3">>, <<"C","N","P","J","/","C","P","F",":">>))))

TextoSemLabels ==
    Junta(<<"E","M","I","T","E","N","T","E",":">>,
    Junta(<<"D","E","S","T","I","N","O">>,
    Junta(<<"C","O","N","T","R","A","T","A","N","T","E">>,
    Junta(<<"C","T","-","e"," ","1","2","3">>, <<"C","N","P","J","/","C","P","F",":">>))))

\* how the processor is constructed and the first page of the document it is given
Cenario(ff, base, flag, texto) ==
    [fail_fast |-> ff, base |-> base, validar_estrutura_pdf |-> flag, texto |-> texto]

Cenarios ==
    { Cenario(ff, base, TRUE, TextoComLabels) : ff \in BOOLEAN, base \in {BaseVazia, BaseAprendida} }
    \cup { Cenario(FALSE, BaseVazia, FALSE, TextoSemLabels),
           Cenario(FALSE, BaseAprendida, TRUE, TextoSemLabels) }

Init ==
    /\ pc = "inicio"
    /\ registro = <<>>
    /\ erros_encontrados = <<>>
    /\ \E c \in Cenarios :
          /\ fail_fast = c.fail_fast
          /\ base_conhecimento = c.base
          /\ validar_estrutura_pdf_flag = c.validar_estrutura_pdf
          /\ texto_pagina = c.texto
    /\ labels_encontrados = <<>>
    /\ labels_faltando = <<>>
    /\ retorno = SemRetorno
    /\ chamadas = 0
    /\ InitProcessador
    /\ SemExtracao
    /\ SemLinha
    /\ SemNome
    /\ SemExecucoes
    /\ registros \in Lotes
    /\ nfs_extraidas = [i \in 1..Len(registros) |-> i]
    /\ estado = [i \in 1..Len(registros) |-> "RAW"]
    /\ lote_inicial = registros

\* the mutant of ResultadoEstruturaPdf that swallows the exception and returns False
ResultadoEstruturaPdfEngole(flag, faltando) ==
    IF ~flag THEN [op |-> "validar_estrutura_pdf", tipo |-> "True", labels_faltando |-> <<>>]
    ELSE IF ResultadoEstrutura(faltando).tipo = "ValueError"
    THEN [op |-> "validar_estrutura_pdf", tipo |-> "False", labels_faltando |-> faltando]
    ELSE [op |-> "validar_estrutura_pdf", tipo |-> "True", labels_faltando |-> <<>>]

\* what ProcessadorValidacaoIntegrada.validar_estrutura_pdf returns or raises:
\* True without looking when the flag is off, and the ValueError of validar_estrutura
\* raised again otherwise
ResultadoEstruturaPdf(flag, faltando) ==
    IF ~flag THEN [op |-> "validar_estrutura_pdf", tipo |-> "True", labels_faltando |-> <<>>]
    ELSE IF ResultadoEstrutura(faltando).tipo = "ValueError"
    THEN [op |-> "validar_estrutura_pdf", tipo |-> "ValueError", labels_faltando |-> faltando]
    ELSE [op |-> "validar_estrutura_pdf", tipo |-> "True", labels_faltando |-> <<>>]

\* the caller of the processor: an exception out of validar_estrutura_pdf ends the
\* run for the document, anything else lets it go on to filtrar_dados_validos
ChamadorAposEstrutura(resultado) ==
    IF resultado.tipo = "ValueError" THEN "abortado" ELSE "extraido"

\* ProcessadorValidacaoIntegrada.validar_estrutura_pdf(texto_pagina), called once by
\* the caller before the records of the document are filtered
ValidarEstruturaPdf ==
    /\ pc = "inicio"
    /\ IF validar_estrutura_pdf_flag
       THEN /\ chamadas' = chamadas + 1
            /\ labels_encontrados' = LabelsDoTexto[texto_pagina]
            /\ labels_faltando' = LabelsFaltando(LabelsDoTexto[texto_pagina])
       ELSE UNCHANGED <<chamadas, labels_encontrados, labels_faltando>>
    /\ retorno' = ResultadoEstruturaPdf(validar_estrutura_pdf_flag, labels_faltando')
    /\ pc' = ChamadorAposEstrutura(retorno')
    /\ UNCHANGED <<fail_fast, texto_pagina>>
    /\ UNCHANGED varsValidador
    /\ UNCHANGED varsLote
    /\ UNCHANGED varsExtrator
    /\ UNCHANGED <<varsParser, varsNome, varsExecucoes>>

\* the records a list of references points at
Apontados(regs, refs) == [i \in 1..Len(refs) |-> regs[refs[i]]]

\* the mutant of Filtrar that keeps the count of manual adjustments and the errors
\* by document number of the call before
FiltrarSemZerar(lista) ==
    /\ execucoes < MaxExecucoes
    /\ execucoes' = execucoes + 1
    /\ nfs_extraidas' = lista
    /\ nfs_finais' = <<>>
    /\ registros_corrigidos_count' = 0
    /\ registros_com_erros_count' = 0
    /\ registros_com_erros_criticos_count' = 0
    /\ total_erros_encontrados' = 0
    /\ indice_docs_por_nome' = ConstruirIndiceDocumentos(Apontados(registros, lista))
    /\ idx' = 1
    /\ estado' = [i \in 1..Len(registros) |-> "RAW"]
    /\ lote_inicial' = registros
    /\ pc' = IF lista = <<>> THEN "relatorio" ELSE "validar"
    /\ UNCHANGED <<fail_fast, retorno, validar_estrutura_pdf_flag, base_conhecimento,
                   registros, eventos, erros_por_nf, ajustes_manuais_count>>
    /\ UNCHANGED varsValidador
    /\ UNCHANGED varsEstrutura
    /\ UNCHANGED varsExtrator
    /\ UNCHANGED <<varsParser, varsNome, varsExecucoes>>

\* filtrar_dados_validos(lista) up to its loop: counters reset, index built
Filtrar(lista) ==
    /\ execucoes < MaxExecucoes
    /\ execucoes' = execucoes + 1
    /\ nfs_extraidas' = lista
    /\ nfs_finais' = <<>>
    /\ registros_corrigidos_count' = 0
    /\ registros_com_erros_count' = 0
    /\ registros_com_erros_criticos_count' = 0
    /\ total_erros_encontrados' = 0
    /\ erros_por_nf' = <<>>
    /\ ajustes_manuais_count' = 0
    /\ indice_docs_por_nome' = ConstruirIndiceDocumentos(Apontados(registros, lista))
    /\ idx' = 1
    /\ estado' = [i \in 1..Len(registros) |-> "RAW"]
    /\ lote_inicial' = registros
    /\ pc' = IF lista = <<>> THEN "relatorio" ELSE "validar"
    /\ UNCHANGED <<fail_fast, retorno, validar_estrutura_pdf_flag, base_conhecimento,
                   registros, eventos>>
    /\ UNCHANGED varsValidador
    /\ UNCHANGED varsEstrutura
    /\ UNCHANGED varsExtrator
    /\ UNCHANGED <<varsParser, varsNome, varsExecucoes>>

\* the caller hands the extracted records to filtrar_dados_validos
FiltrarDadosValidos ==
    /\ pc = "extraido"
    /\ Filtrar(nfs_extraidas)

\* filtrar_dados_validos called again, on the list the previous call returned
FiltrarDeNovo ==
    /\ pc = "retornou"
    /\ Filtrar(nfs_finais)

\* f'REG_{idx}'
RegIdx(i) == <<"R", "E", "G", "_">> \o Dg(<<i>>)

\* the dict d after d[chave] = valor
Atribuir(d, chave, valor) ==
    [k \in DOMAIN d \cup {chave} |-> IF k = chave THEN valor ELSE d[k]]

ErrosCriticos(erros) == SelectSeq(erros, LAMBDA e : e.severidade = "CRITICO")

\* step 1 of the loop body: validar_registro_completo and the error counters
ValidarRegistroDoLote ==
    /\ pc = "validar"
    /\ LET ref == nfs_extraidas[idx]
           nf == registros[ref]
           nf_num == Get(nf, "nf_numero", RegIdx(idx))
           erros == validar_registro_completo(nf, fail_fast)
       IN  /\ erros_encontrados' = erros
           /\ IF erros # <<>>
              THEN /\ erros_por_nf' = Atribuir(erros_por_nf, nf_num, erros)
                   /\ registros_com_erros_count' = registros_com_erros_count + 1
                   /\ total_erros_encontrados' = total_erros_encontrados + Len(erros)
                   /\ registros_com_erros_criticos_count' =
                        IF ErrosCriticos(erros) # <<>>
                        THEN registros_com_erros_criticos_count + 1
                        ELSE registros_com_erros_criticos_count
              ELSE UNCHANGED <<erros_por_nf, registros_com_erros_count,
                               total_erros_encontrados, registros_com_erros_criticos_count>>
           /\ estado' = [estado EXCEPT ![ref] = "VALIDATED"]
    /\ pc' = "corrigir"
    /\ UNCHANGED <<fail_fast, registro, retorno, validar_estrutura_pdf_flag,
                   base_conhecimento, registros, nfs_extraidas, nfs_finais, idx,
                   registros_corrigidos_count, ajustes_manuais_count,
                   indice_docs_por_nome, eventos, execucoes, lote_inicial>>
    /\ UNCHANGED varsEstrutura
    /\ UNCHANGED varsExtrator
    /\ UNCHANGED <<varsParser, varsNome, varsExecucoes>>

\* CorrigirRegistro building the index again from the records as corrected so far
CorrigirRegistroReindexando ==
    /\ pc = "corrigir"
    /\ LET ref == nfs_extraidas[idx]
           res == TentarCorrigirDados(registros[ref], indice_docs_por_nome, base_conhecimento)
       IN  /\ registros' = [registros EXCEPT ![ref] = res.nf]
           /\ registros_corrigidos_count' =
                IF res.corrigiu THEN registros_corrigidos_count + 1
                ELSE registros_corrigidos_count
           /\ estado' = [estado EXCEPT ![ref] = "CORRECTION_ATTEMPTED"]
           /\ indice_docs_por_nome' =
                ConstruirIndiceDocumentos(
                    Apontados([registros EXCEPT ![ref] = res.nf], nfs_extraidas))
    /\ pc' = "auditar"
    /\ UNCHANGED <<fail_fast, retorno, validar_estrutura_pdf_flag, base_conhecimento,
                   nfs_extraidas, nfs_finais, idx, registros_com_erros_count,
                   registros_com_erros_criticos_count, total_erros_encontrados,
                   ajustes_manuais_count, erros_por_nf, eventos,
                   execucoes, lote_inicial>>
    /\ UNCHANGED varsValidador
    /\ UNCHANGED varsEstrutura
    /\ UNCHANGED varsExtrator
    /\ UNCHANGED <<varsParser, varsNome, varsExecucoes>>

\* step 2 of the loop body: _tentar_corrigir_dados, in place
CorrigirRegistro ==
    /\ pc = "corrigir"
    /\ LET ref == nfs_extraidas[idx]
           res == TentarCorrigirDados(registros[ref], indice_docs_por_nome, base_conhecimento)
       IN  /\ registros' = [registros EXCEPT ![ref] = res.nf]
           /\ registros_corrigidos_count' =
                IF res.corrigiu THEN registros_corrigidos_count + 1
                ELSE registros_corrigidos_count
           /\ estado' = [estado EXCEPT ![ref] = "CORRECTION_ATTEMPTED"]
    /\ pc' = "auditar"
    /\ UNCHANGED <<fail_fast, retorno, validar_estrutura_pdf_flag, base_conhecimento,
                   nfs_extraidas, nfs_finais, idx, registros_com_erros_count,
                   registros_com_erros_criticos_count, total_erros_encontrados,
                   ajustes_manuais_count, erros_por_nf, indice_docs_por_nome, eventos,
                   execucoes, lote_inicial>>
    /\ UNCHANGED varsValidador
    /\ UNCHANGED varsEstrutura
    /\ UNCHANGED varsExtrator
    /\ UNCHANGED <<varsParser, varsNome, varsExecucoes>>

\* the mutant of ManterRegistro that drops a record left with an adjustment to make
ManterRegistroSemAjuste(finais, ref, ajustes) ==
    IF ajustes # <<>> THEN finais ELSE Append(finais, ref)

\* step 4 of the loop body: nfs_finais.append(nf), whatever was found
ManterRegistro(finais, ref, ajustes) == Append(finais, ref)

\* AuditarRegistro clearing the identifier fields it asks the human to replace
AuditarRegistroLimpando ==
    /\ pc = "auditar"
    /\ LET ref == nfs_extraidas[idx]
           ajustes == AuditarParaHumano(registros[ref])
           apontado(k) == \E i \in 1..Len(ajustes) :
                             ajustes[i].campo = k /\ ajustes[i].tipo = "ACAO_NECESSARIA"
       IN  /\ ajustes_manuais_count' = ajustes_manuais_count + Len(ajustes)
           /\ eventos' = eventos \o ajustes
           /\ nfs_finais' = ManterRegistro(nfs_finais, ref, ajustes)
           /\ estado' = [estado EXCEPT ![ref] = "AUDITED"]
           /\ registros' = [registros EXCEPT ![ref] =
                    [k \in DOMAIN registros[ref] |->
                        IF apontado(k) THEN <<>> ELSE registros[ref][k]]]
    /\ idx' = idx + 1
    /\ pc' = IF idx = Len(nfs_extraidas) THEN "relatorio" ELSE "validar"
    /\ UNCHANGED <<fail_fast, retorno, validar_estrutura_pdf_flag, base_conhecimento,
                   nfs_extraidas, registros_corrigidos_count,
                   registros_com_erros_count, registros_com_erros_criticos_count,
                   total_erros_encontrados, erros_por_nf, indice_docs_por_nome,
                   execucoes, lote_inicial>>
    /\ UNCHANGED varsValidador
    /\ UNCHANGED varsEstrutura
    /\ UNCHANGED varsExtrator
    /\ UNCHANGED <<varsParser, varsNome, varsExecucoes>>

\* steps 3 and 4 of the loop body: _auditar_para_humano, then the record is kept
AuditarRegistro ==
    /\ pc = "auditar"
    /\ LET ref == nfs_extraidas[idx]
           ajustes == AuditarParaHumano(registros[ref])
       IN  /\ ajustes_manuais_count' = ajustes_manuais_count + Len(ajustes)
           /\ eventos' = eventos \o ajustes
           /\ nfs_finais' = ManterRegistro(nfs_finais, ref, ajustes)
           /\ estado' = [estado EXCEPT ![ref] = "AUDITED"]
    /\ idx' = idx + 1
    /\ pc' = IF idx = Len(nfs_extraidas) THEN "relatorio" ELSE "validar"
    /\ UNCHANGED <<fail_fast, retorno, validar_estrutura_pdf_flag, base_conhecimento,
                   registros, nfs_extraidas, registros_corrigidos_count,
                   registros_com_erros_count, registros_com_erros_criticos_count,
                   total_erros_encontrados, erros_por_nf, indice_docs_por_nome,
                   execucoes, lote_inicial>>
    /\ UNCHANGED varsValidador
    /\ UNCHANGED varsEstrutura
    /\ UNCHANGED varsExtrator
    /\ UNCHANGED <<varsParser, varsNome, varsExecucoes>>

\* ProcessadorValidacaoIntegrada.obter_estatisticas
ObterEstatisticas ==
    [ total_rejeitados |-> 0,
      total_corrigidos |-> registros_corrigidos_count,
      total_com_erros |-> registros_com_erros_count,
      total_com_erros_criticos |-> registros_com_erros_criticos_count,
      total_erros_encontrados |-> total_erros_encontrados,
      total_ajustes_manuais |-> ajustes_manuais_count,
      tem_rejeicoes |-> FALSE,
      tem_correcoes |-> registros_corrigidos_count > 0,
      tem_erros |-> registros_com_erros_count > 0,
      tem_erros_criticos |-> registros_com_erros_criticos_count > 0 ]

\* the end of filtrar_dados_validos: the final report is logged, nfs_finais returned
Retornar ==
    /\ pc = "relatorio"
    /\ retorno' = [op |-> "filtrar_dados_validos", tipo |-> "lista", labels_faltando |-> <<>>]
    /\ pc' = "retornou"
    /\ UNCHANGED fail_fast
    /\ UNCHANGED varsValidador
    /\ UNCHANGED varsEstrutura
    /\ UNCHANGED varsLote
    /\ UNCHANGED varsExtrator
    /\ UNCHANGED <<varsParser, varsNome, varsExecucoes>>

Next ==
    \/ ValidarEstruturaPdf
    \/ FiltrarDadosValidos
    \/ FiltrarDeNovo
    \/ ValidarRegistroDoLote
    \/ CorrigirRegistro
    \/ AuditarRegistro
    \/ Retornar

Spec == Init /\ [][Next]_vars

-----------------------------------------------------------------------------
(* Claims about the field validator                                        *)

\* the digits a field holds (nothing for None or a missing key)
DigitosDoCampo(reg, chave) ==
    IF reg[chave] \in {None, Ausente} THEN <<>> ELSE SomenteDigitos(reg[chave])

CampoDoDocumento(chave) ==
    CASE chave = "emitente_cnpj" -> "CNPJ Emitente"
      [] chave = "contratante_cnpj" -> "CNPJ Contratante"
      [] chave = "destinatario_cnpj" -> "CNPJ Destinatário"

ChavesDocumento == {"emitente_cnpj", "contratante_cnpj", "destinatario_cnpj"}

TemErroCritico(erros, campo) ==
    \E i \in 1..Len(erros) : erros[i].campo = campo /\ erros[i].severidade = "CRITICO"

EhCpfValido(doc) == Len(doc) = 11 /\ validar_cpf(doc)

SemErroAntesDosDocumentos(reg) ==
    /\ validar_nf_numero(reg) = <<>>
    /\ validar_nf_data(reg) = <<>>
    /\ validar_cte_numero(reg) = <<>>
    /\ validar_cte_data(reg) = <<>>

\* C2 as stated: a checksum-valid 11-digit personal id gives no CRITICAL error in the
\* contractor or recipient field and always a CRITICAL "personal id, not company id"
\* error in the emitter field.
C2_Original ==
    pc = "validado" =>
        /\ \A k \in {"contratante_cnpj", "destinatario_cnpj"} :
              EhCpfValido(DigitosDoCampo(registro, k))
                  => ~TemErroCritico(erros_encontrados, CampoDoDocumento(k))
        /\ EhCpfValido(DigitosDoCampo(registro, "emitente_cnpj"))
              => \E i \in 1..Len(erros_encontrados) :
                    /\ erros_encontrados[i].campo = "CNPJ Emitente"
                    /\ erros_encontrados[i].severidade = "CRITICO"
                    /\ erros_encontrados[i].mensagem = "EMITENTE_ESTA_COMO_CPF"

\* C2 amended: a checksum-valid 11-digit personal id gives no CRITICAL error in the
\* contractor or recipient field; in the emitter field it gives the CRITICAL "personal
\* id, not company id" error whenever the emitter rule is reached, that is with
\* fail_fast off, or with fail_fast on when no earlier field (document number, document
\* date, transport-document number, transport-document date) has an error.
C2_CpfPorCampo ==
    pc = "validado" =>
        /\ \A k \in {"contratante_cnpj", "destinatario_cnpj"} :
              EhCpfValido(DigitosDoCampo(registro, k))
                  => ~TemErroCritico(erros_encontrados, CampoDoDocumento(k))
        /\ ( /\ EhCpfValido(DigitosDoCampo(registro, "emitente_cnpj"))
             /\ (~fail_fast \/ SemErroAntesDosDocumentos(registro)) )
              => \E i \in 1..Len(erros_encontrados) :
                    /\ erros_encontrados[i].campo = "CNPJ Emitente"
                    /\ erros_encontrados[i].severidade = "CRITICO"
                    /\ erros_encontrados[i].mensagem = "EMITENTE_ESTA_COMO_CPF"

C2_Witness ==
    /\ pc = "validado"
    /\ fail_fast
    /\ EhCpfValido(DigitosDoCampo(registro, "emitente_cnpj"))
    /\ EhCpfValido(DigitosDoCampo(registro, "contratante_cnpj"))
    /\ TemErroCritico(erros_encontrados, "CNPJ Emitente")
    /\ ~TemErroCritico(erros_encontrados, "CNPJ Contratante")

\* C3: with fail_fast off, each identifier field (emitter, contractor, recipient) that
\* is empty, or whose digits number neither 11 nor 14, gets a CRITICAL error.
C3_TamanhoOuVazioCritico ==
    (pc = "validado" /\ ~fail_fast) =>
        \A k \in ChavesDocumento :
            Len(DigitosDoCampo(registro, k)) \notin {11, 14}
                => TemErroCritico(erros_encontrados, CampoDoDocumento(k))

C3_Witness ==
    /\ pc = "validado"
    /\ ~fail_fast
    /\ Len(DigitosDoCampo(registro, "contratante_cnpj")) = 10
    /\ Len(DigitosDoCampo(registro, "destinatario_cnpj")) = 3
    /\ TemErroCritico(erros_encontrados, "CNPJ Contratante")
    /\ TemErroCritico(erros_encontrados, "CNPJ Destinatário")

-----------------------------------------------------------------------------
(* Claims about the structure validator                                    *)

\* the last call was validar_estrutura
ChamouValidarEstrutura == retorno.op = "validar_estrutura"

\* the labels whose pattern matches nowhere in the text
LabelsSemCasamento(texto) ==
    {nome \in Range(NomesLabels) : ~Busca(PadraoLabel(nome), texto)}

\* C9: validar_estrutura raises exactly when some required label matches nowhere in the
\* text; the error names every missing label and no label that was found; when every
\* label matches it returns True.
C9_FalhaSseLabelFaltando ==
    (pc = "estrutura" /\ ChamouValidarEstrutura) =>
        /\ retorno.tipo = "ValueError" <=> LabelsSemCasamento(texto_pagina) # {}
        /\ retorno.tipo = "ValueError" =>
              Range(retorno.labels_faltando) = LabelsSemCasamento(texto_pagina)
        /\ retorno.tipo # "ValueError" => retorno.tipo = "True"

C9_Witness ==
    /\ pc = "estrutura"
    /\ retorno.tipo = "ValueError"
    /\ retorno.labels_faltando = <<"CONTRATANTE", "CNPJ_CPF">>

-----------------------------------------------------------------------------
(* Claims about the batch pipeline                                          *)

ChavesNome == {"emitente_nome", "contratante_nome", "destinatario_nome"}

EmFiltragem == pc \in {"validar", "corrigir", "auditar", "relatorio", "retornou"}

\* C1: for every batch and either fail_fast setting, filtrar_dados_validos returns a
\* list as long as its input, holding the very same records in the same order (while
\* it runs, the list is the prefix of the input processed so far), and the statistics
\* report no rejection
C1_TodosOsRegistrosRetornam ==
    /\ EmFiltragem => /\ Len(nfs_finais) <= Len(nfs_extraidas)
                      /\ nfs_finais = SubSeq(nfs_extraidas, 1, Len(nfs_finais))
    /\ pc = "retornou" => /\ nfs_finais = nfs_extraidas
                          /\ nfs_finais = [i \in 1..Len(lote_inicial) |-> i]
                          /\ ObterEstatisticas.total_rejeitados = 0
                          /\ ~ObterEstatisticas.tem_rejeicoes

\* a batch of three came back whole although it had critical errors, a correction
\* and adjustments left to the human, under fail_fast
C1_Witness ==
    /\ pc = "retornou"
    /\ fail_fast
    /\ Len(nfs_finais) = 3
    /\ registros_com_erros_criticos_count > 0
    /\ registros_corrigidos_count > 0
    /\ ajustes_manuais_count > 0

\* the value of a field, with nothing for a missing key
ValorDoCampo(reg, chave) == Get(reg, chave, <<>>)

\* a field that holds nothing: missing, None, or blank
CampoVazio(reg, chave) ==
    ValorDoCampo(reg, chave) = None \/ Strip(ValorDoCampo(reg, chave)) = <<>>

\* an identifier written as the all-zero placeholder
CampoPlaceholder(reg, chave) ==
    /\ ValorDoCampo(reg, chave) # None
    /\ SomenteDigitos(ValorDoCampo(reg, chave)) = [i \in 1..14 |-> "0"]

\* an identifier with no digit at all, or whose digits are the placeholder; a name of
\* fewer than two characters once null-like texts count as nothing
CampoTidoComoAusente(reg, chave) ==
    IF chave \in ChavesDocumento
    THEN NormalizarDocumento(ValorDoCampo(reg, chave)) \in {<<>>, [i \in 1..14 |-> "0"]}
    ELSE Len(NormalizarTexto(ValorDoCampo(reg, chave))) < 2

\* the record the loop is at
Atual == nfs_extraidas[idx]

\* C6 as stated: an identifier or name field that is non-empty before correction (and,
\* for identifiers, not the all-zero placeholder) has the same value after it
C6_Original ==
    pc = "auditar" =>
        \A chave \in ChavesDocumento \cup ChavesNome :
            registros[Atual][chave] # lote_inicial[Atual][chave] =>
                \/ CampoVazio(lote_inicial[Atual], chave)
                \/ chave \in ChavesDocumento /\ CampoPlaceholder(lote_inicial[Atual], chave)

\* C6: the correction step changes only the record at hand, and in it only an
\* identifier field whose digits are none or the 14-zero placeholder, or a name field
\* whose normalized text has fewer than two characters; every other field of every
\* record keeps its value
C6_SoPreencheAusentes ==
    pc = "auditar" =>
        \A i \in 1..Len(registros) : \A chave \in DOMAIN registros[i] :
            registros[i][chave] # lote_inicial[i][chave] =>
                /\ estado[i] \in {"CORRECTION_ATTEMPTED", "AUDITED"}
                /\ chave \in ChavesDocumento \cup ChavesNome
                /\ CampoTidoComoAusente(lote_inicial[i], chave)

\* the correction filled the recipient identifier of a record whose emitter fields,
\* both present, stayed as they were
C6_Witness ==
    /\ pc = "auditar"
    /\ execucoes = 1
    /\ registros[Atual].destinatario_cnpj # lote_inicial[Atual].destinatario_cnpj
    /\ ~CampoTidoComoAusente(lote_inicial[Atual], "emitente_cnpj")
    /\ ~CampoTidoComoAusente(lote_inicial[Atual], "emitente_nome")
    /\ registros[Atual].emitente_cnpj = lote_inicial[Atual].emitente_cnpj
    /\ registros[Atual].emitente_nome = lote_inicial[Atual].emitente_nome

\* C7 as stated: a second run of filtrar_dados_validos, on the records the first run
\* returned, changes no field of any record and ends with registros_corrigidos_count = 0
C7_Idempotencia ==
    (pc = "retornou" /\ execucoes = 2) =>
        /\ registros = lote_inicial
        /\ registros_corrigidos_count = 0

\* what the batch shows for a role at the start of the run: (name key, identifier)
\* for each record with a 14-digit identifier other than zeros and a name key of at
\* least 8 characters
Observados(chave_doc) ==
    { <<NormalizarNomeChave(ValorDoCampo(lote_inicial[j], NomeDoDocumento(chave_doc))),
        NormalizarDocumento(ValorDoCampo(lote_inicial[j], chave_doc))>> :
        j \in { k \in 1..Len(lote_inicial) :
                  /\ Len(NormalizarDocumento(ValorDoCampo(lote_inicial[k], chave_doc))) = 14
                  /\ NormalizarDocumento(ValorDoCampo(lote_inicial[k], chave_doc))
                        # [i \in 1..14 |-> "0"]
                  /\ Len(NormalizarNomeChave(
                        ValorDoCampo(lote_inicial[k], NomeDoDocumento(chave_doc)))) >= 8 } }

ObservadosExatos(chave_doc, nome_chave) ==
    { o[2] : o \in { p \in Observados(chave_doc) : p[1] = nome_chave } }

ObservadosPorContinencia(chave_doc, nome_chave) ==
    { o[2] : o \in { p \in Observados(chave_doc) :
                        Contem(p[1], nome_chave) \/ Contem(nome_chave, p[1]) } }

\* the name key of the role of the record at hand, as it was at the start of the run
ChaveDoNome(chave_doc) ==
    NormalizarNomeChave(ValorDoCampo(lote_inicial[Atual], NomeDoDocumento(chave_doc)))

\* the identifier of the role is looked up by name
BuscaPorNome(chave_doc) ==
    /\ CampoTidoComoAusente(lote_inicial[Atual], chave_doc)
    /\ Len(ChaveDoNome(chave_doc)) >= 8

\* more than one identifier under the exact name, or across the containment matches
AmbiguoNoLote(chave_doc) ==
    \/ Cardinality(ObservadosExatos(chave_doc, ChaveDoNome(chave_doc))) > 1
    \/ /\ Len(ChaveDoNome(chave_doc)) >= 12
       /\ Cardinality(ObservadosPorContinencia(chave_doc, ChaveDoNome(chave_doc))) > 1

\* the ambiguity the lookup reaches: several identifiers under the exact name, or none
\* under it and several across the containment matches
AmbiguoSemExatoUnico(chave_doc) ==
    \/ Cardinality(ObservadosExatos(chave_doc, ChaveDoNome(chave_doc))) > 1
    \/ /\ ObservadosExatos(chave_doc, ChaveDoNome(chave_doc)) = {}
       /\ Len(ChaveDoNome(chave_doc)) >= 12
       /\ Cardinality(ObservadosPorContinencia(chave_doc, ChaveDoNome(chave_doc))) > 1

\* C8 as stated: when the batch holds more than one identifier for the name, the
\* identifier field is left as it was
C8_Original ==
    pc = "auditar" =>
        \A chave_doc \in ChavesDocumento :
            (BuscaPorNome(chave_doc) /\ AmbiguoNoLote(chave_doc)) =>
                registros[Atual][chave_doc] = lote_inicial[Atual][chave_doc]

\* C8: when the batch holds several identifiers under the exact name, or none under
\* it and several across the containment matches, no identifier of the batch is
\* taken: the field gets what the knowledge base answers for that name and role, and
\* is left as it was when the knowledge base answers nothing
C8_AmbiguidadeSoPelaBase ==
    pc = "auditar" =>
        \A chave_doc \in ChavesDocumento :
            (BuscaPorNome(chave_doc) /\ AmbiguoSemExatoUnico(chave_doc)) =>
                registros[Atual][chave_doc] =
                    IF <<CampoAprendizado(chave_doc), ChaveDoNome(chave_doc)>>
                            \in DOMAIN base_conhecimento.cnpj_por_nome
                    THEN base_conhecimento.cnpj_por_nome[
                            <<CampoAprendizado(chave_doc), ChaveDoNome(chave_doc)>>]
                    ELSE lote_inicial[Atual][chave_doc]

\* a recipient without identifier whose name the batch shows under two identifiers,
\* and that the knowledge base does not know, stayed without identifier
C8_Witness ==
    /\ pc = "auditar"
    /\ BuscaPorNome("destinatario_cnpj")
    /\ Cardinality(ObservadosExatos("destinatario_cnpj", ChaveDoNome("destinatario_cnpj"))) = 2
    /\ registros[Atual].destinatario_cnpj = lote_inicial[Atual].destinatario_cnpj

\* the structure validation ran on the first page and found a label missing
EstruturaFalhou ==
    /\ validar_estrutura_pdf_flag
    /\ chamadas >= 1
    /\ \E nome \in DOMAIN LabelsDoTexto[texto_pagina] : ~LabelsDoTexto[texto_pagina][nome]

EstadosDeRegistro == {"RAW", "VALIDATED", "CORRECTION_ATTEMPTED", "AUDITED"}

\* C10: when the structure validation fails, the failure reaches the caller as the
\* exception, the validation is not called again, and no record is validated,
\* corrected or audited; and a record is only ever in one of the four states, ending
\* AUDITED when filtrar_dados_validos returns
C10_EstruturaEhOPortao ==
    /\ EstruturaFalhou =>
          /\ pc = "abortado"
          /\ retorno.tipo = "ValueError"
          /\ chamadas = 1
          /\ execucoes = 0
          /\ \A i \in 1..Len(registros) : estado[i] = "RAW"
          /\ registros = lote_inicial
          /\ nfs_finais = <<>>
          /\ erros_por_nf = <<>>
          /\ eventos = <<>>
          /\ registros_corrigidos_count = 0
          /\ registros_com_erros_count = 0
          /\ ajustes_manuais_count = 0
    /\ \A i \in 1..Len(registros) : estado[i] \in EstadosDeRegistro
    /\ pc = "retornou" => \A i \in 1..Len(registros) : estado[i] = "AUDITED"

\* a batch of three that was stopped at the gate
C10_Witness ==
    /\ pc = "abortado"
    /\ Len(registros) = 3
    /\ retorno.labels_faltando # <<>>

-----------------------------------------------------------------------------
(* Regular expressions with one group (re.search, re.findall), as far as   *)
(* the patterns of campo_extractor.py need                                 *)

\* the characters the texts of the model are made of
Alfabeto ==
    ConjuntoDigitos \cup ConjuntoMinusculas \cup ConjuntoMaiusculas \cup Brancos
        \cup {".", "/", "-", ":", "|", "!", ","}

\* A pattern is a sequence of elements: a character class repeated min..max times
\* (max = -1: no upper limit), greedy or lazy; an alternation of patterns, tried in
\* order; the start and the end of the group; the anchors ^ and $.  Classes hold
\* the upper-case form of their letters; under re.IGNORECASE a character of the
\* text is upper-cased before the comparison.
Elem(tipo, cls, min, max, lazy, alts) ==
    [tipo |-> tipo, cls |-> cls, min |-> min, max |-> max, lazy |-> lazy, alts |-> alts]

Rep(cls, min, max) == <<Elem("cls", cls, min, max, FALSE, <<>>)>>
RepPreguicoso(cls, min, max) == <<Elem("cls", cls, min, max, TRUE, <<>>)>>
Literal(s) == [i \in 1..Len(s) |-> Elem("cls", {s[i]}, 1, 1, FALSE, <<>>)]
Alt(alts) == <<Elem("alt", {}, 0, 0, FALSE, alts)>>
Grupo(p) == <<Elem("abre", {}, 0, 0, FALSE, <<>>)>> \o p \o <<Elem("fecha", {}, 0, 0, FALSE, <<>>)>>
Inicio == <<Elem("inicio", {}, 0, 0, FALSE, <<>>)>>
Fim == <<Elem("fim", {}, 0, 0, FALSE, <<>>)>>

\* \d{n}
D(n) == Rep(ConjuntoDigitos, n, n)

\* no match
Falha == [ok |-> FALSE, ini |-> 0, fim |-> 0, g |-> <<0, 0>>]

\* backtracking: the first way that matches
OuSenao(a, b) == IF a.ok THEN a ELSE b

CarDe(t, i, ignorecase) == IF ignorecase THEN Upper(t[i]) ELSE t[i]

\* the lengths up to which the characters from position i on are all of the class
Corridas(t, i, e, ignorecase) ==
    { n \in 0..(IF e.max >= 0 /\ e.max < Len(t) - i + 1 THEN e.max ELSE Len(t) - i + 1) :
        \A j \in 0..(n - 1) : CarDe(t, i + j, ignorecase) \in e.cls }

\* $ without re.MULTILINE: the end of the text, or just before its last line break
NoFim(t, i) == i = Len(t) + 1 \/ (i = Len(t) /\ t[i] = "\n")

RECURSIVE Casar(_, _, _, _, _)
RECURSIVE CasarAlternativas(_, _, _, _, _, _, _)

\* for each number n of repetitions of the class: how the rest of the pattern matches
Tentativa(n, m) == [n |-> n, m |-> m]

Repeticoes(t, i, e, resto, g, ignorecase) ==
    { Tentativa(n, Casar(t, i + n, resto, g, ignorecase)) :
        n \in {k \in Corridas(t, i, e, ignorecase) : k >= e.min} }

\* of the attempts that match, the one with the most repetitions (or the fewest)
Preferida(rs, lazy) ==
    IF \A r \in rs : ~r.m.ok THEN Falha
    ELSE (CHOOSE r \in rs :
            /\ r.m.ok
            /\ \A q \in rs : q.m.ok => IF lazy THEN r.n <= q.n ELSE q.n <= r.n).m

\* a greedy quantifier takes the most repetitions that let the rest match, a lazy one
\* the fewest
CasarClasse(t, i, e, resto, g, ignorecase) ==
    Preferida(Repeticoes(t, i, e, resto, g, ignorecase), e.lazy)

\* pattern p matches text t from position i on; g holds the bounds of the group
Casar(t, i, p, g, ignorecase) ==
    IF Len(p) = 0 THEN [ok |-> TRUE, ini |-> 0, fim |-> i, g |-> g]
    ELSE CASE Head(p).tipo = "abre" -> Casar(t, i, Tail(p), <<i, g[2]>>, ignorecase)
           [] Head(p).tipo = "fecha" -> Casar(t, i, Tail(p), <<g[1], i>>, ignorecase)
           [] Head(p).tipo = "inicio" ->
                IF i = 1 THEN Casar(t, i, Tail(p), g, ignorecase) ELSE Falha
           [] Head(p).tipo = "fim" ->
                IF NoFim(t, i) THEN Casar(t, i, Tail(p), g, ignorecase) ELSE Falha
           [] Head(p).tipo = "alt" ->
                CasarAlternativas(t, i, Head(p).alts, 1, Tail(p), g, ignorecase)
           [] Head(p).tipo = "cls" ->
                CasarClasse(t, i, Head(p), Tail(p), g, ignorecase)

CasarAlternativas(t, i, alts, k, resto, g, ignorecase) ==
    IF k > Len(alts) THEN Falha
    ELSE OuSenao(Casar(t, i, alts[k] \o resto, g, ignorecase),
                 CasarAlternativas(t, i, alts, k + 1, resto, g, ignorecase))

ComInicio(m, i) == [m EXCEPT !.ini = i]

\* for each position from i on: how the pattern matches there
Inicios(t, p, ignorecase, i) ==
    { Tentativa(k, ComInicio(Casar(t, k, p, <<0, 0>>, ignorecase), k)) : k \in i..(Len(t) + 1) }

\* the leftmost match that starts at position i or later
ProcurarDesde(t, p, ignorecase, i) == Preferida(Inicios(t, p, ignorecase, i), TRUE)

\* re.search(p, t) and re.search(p, t, re.IGNORECASE)
Procurar(t, p, ignorecase) == ProcurarDesde(t, p, ignorecase, 1)

\* match.group(0), match.group(1); the empty string stands for no match
Grupo0(t, m) == IF m.ok THEN SubSeq(t, m.ini, m.fim - 1) ELSE <<>>
Grupo1(t, m) == IF m.ok THEN SubSeq(t, m.g[1], m.g[2] - 1) ELSE <<>>

RECURSIVE AcharTodosDesde(_, _, _, _)
AcharTodosApos(t, p, ignorecase, m) ==
    IF ~m.ok THEN <<>>
    ELSE <<Grupo1(t, m)>>
            \o AcharTodosDesde(t, p, ignorecase, IF m.fim > m.ini THEN m.fim ELSE m.fim + 1)

AcharTodosDesde(t, p, ignorecase, i) ==
    AcharTodosApos(t, p, ignorecase, ProcurarDesde(t, p, ignorecase, i))

\* re.findall(p, t) for a pattern with one group: the matches do not overlap
AcharTodos(t, p) == AcharTodosDesde(t, p, FALSE, 1)

\* str.find(sep) + 1, for a separator the string holds
PrimeiraPosicao(s, sep) == CHOOSE i \in 1..Len(s) : s[i] = sep /\ \A j \in 1..(i - 1) : s[j] # sep

RECURSIVE Separar(_, _)
\* str.split(sep) for a separator of one character
Separar(s, sep) ==
    IF \A i \in 1..Len(s) : s[i] # sep THEN <<s>>
    ELSE <<SubSeq(s, 1, PrimeiraPosicao(s, sep) - 1)>>
            \o Separar(SubSeq(s, PrimeiraPosicao(s, sep) + 1, Len(s)), sep)

\* the first result that is not None
OuNone(a, b) == IF a # None THEN a ELSE b

-----------------------------------------------------------------------------
(* The identifier extractor (campo_extractor.py), strategies 1 to 5        *)

CNPJ_TAMANHO == 14
CNPJ_VAZIO == [i \in 1..CNPJ_TAMANHO |-> "0"]

\* limpar_cnpj_cpf
limpar_cnpj_cpf(texto) == SelectSeq(texto, EhDigito)

Separadores == {".", "/", "-"}
NaoDigito == Alfabeto \ ConjuntoDigitos

\* CNPJ/CPF:\s*
Rotulo == Literal(<<"C","N","P","J","/","C","P","F",":">>) \o Rep(Brancos, 0, -1)
\* \d{3}\.\d{3}\.\d{3}-\d{2} and \d{2}\.\d{3}\.\d{3}/\d{4}-\d{2}
FormatoCpf == D(3) \o Literal(<<".">>) \o D(3) \o Literal(<<".">>) \o D(3) \o Literal(<<"-">>) \o D(2)
FormatoCnpjSemDv == D(2) \o Literal(<<".">>) \o D(3) \o Literal(<<".">>) \o D(3) \o Literal(<<"/">>) \o D(4)
FormatoCnpj == FormatoCnpjSemDv \o Literal(<<"-">>) \o D(2)
FormatoCnpjComPontos ==
    D(2) \o Literal(<<".">>) \o D(3) \o Literal(<<".">>) \o D(3) \o Literal(<<".">>) \o D(4)
        \o Literal(<<"-">>) \o D(2)
\* (?:\s|$|[^\d]) and (?:\s|$|[^\d]|FONE|TELEFONE)
DepoisDoDocumento == Alt(<<Rep(Brancos, 1, 1), Fim, Rep(NaoDigito, 1, 1)>>)
DepoisDoDocumentoOuFone ==
    Alt(<<Rep(Brancos, 1, 1), Fim, Rep(NaoDigito, 1, 1), Literal(<<"F","O","N","E">>),
          Literal(<<"T","E","L","E","F","O","N","E">>)>>)

\* if len(x) == 11 and validar_cpf(x): return x
CpfValidoOuNone(doc) == IF Len(doc) = 11 /\ validar_cpf(doc) THEN doc ELSE None
\* if len(x) == CNPJ_TAMANHO: return x
CnpjOuNone(doc) == IF Len(doc) = CNPJ_TAMANHO THEN doc ELSE None
\* if len(x) == 11: if validar_cpf(x): return x / elif len(x) == CNPJ_TAMANHO: return x
CpfOuCnpjOuNone(doc) ==
    IF Len(doc) = 11 THEN (IF validar_cpf(doc) THEN doc ELSE None)
    ELSE IF Len(doc) = CNPJ_TAMANHO THEN doc ELSE None

RotuladoCpf(texto) ==
    CpfValidoOuNone(limpar_cnpj_cpf(Grupo1(texto,
        Procurar(texto, Rotulo \o Grupo(FormatoCpf) \o DepoisDoDocumento, TRUE))))

RotuladoCnpj(texto) ==
    CnpjOuNone(limpar_cnpj_cpf(Grupo1(texto,
        Procurar(texto, Rotulo \o Grupo(FormatoCnpj) \o DepoisDoDocumento, TRUE))))

\* the labelled run of digits accepted by its length alone, without the checksum of
\* the 11-digit case
RotuladoGenericoSemDigitoVerificador(texto) ==
    LET doc == limpar_cnpj_cpf(Grupo1(texto,
                   Procurar(texto,
                            Rotulo \o Grupo(RepPreguicoso(ConjuntoDigitos \cup Separadores, 1, -1))
                               \o Alt(<<Rep(Brancos, 1, 1), Fim, Rep(NaoDigito \ Separadores, 1, 1)>>),
                            TRUE)))
    IN  IF Len(doc) \in {11, CNPJ_TAMANHO} THEN doc ELSE None

\* CNPJ/CPF:\s*([\d./-]+?)(?:\s|$|[^\d./-])
RotuladoGenerico(texto) ==
    CpfOuCnpjOuNone(limpar_cnpj_cpf(Grupo1(texto,
        Procurar(texto,
                 Rotulo \o Grupo(RepPreguicoso(ConjuntoDigitos \cup Separadores, 1, -1))
                    \o Alt(<<Rep(Brancos, 1, 1), Fim, Rep(NaoDigito \ Separadores, 1, 1)>>),
                 TRUE))))

Estrategia1(texto) ==
    OuNone(RotuladoCpf(texto), OuNone(RotuladoCnpj(texto), RotuladoGenerico(texto)))

padroes_formatados == <<FormatoCnpj, FormatoCnpjSemDv, FormatoCpf, FormatoCnpjComPontos>>

FormatadoSolto(texto, padrao) ==
    CpfOuCnpjOuNone(limpar_cnpj_cpf(Grupo0(texto, Procurar(texto, padrao, FALSE))))

RECURSIVE Estrategia2Desde(_, _)
Estrategia2Desde(texto, k) ==
    IF k > Len(padroes_formatados) THEN None
    ELSE OuNone(FormatadoSolto(texto, padroes_formatados[k]), Estrategia2Desde(texto, k + 1))

Estrategia2(texto) == Estrategia2Desde(texto, 1)

\* (?:CNPJ/CPF|CPF)[:\s]*(\d{11})(?:\s|$|[^\d]|FONE|TELEFONE)
PadraoCpfCru ==
    Alt(<<Literal(<<"C","N","P","J","/","C","P","F">>), Literal(<<"C","P","F">>)>>)
        \o Rep({":"} \cup Brancos, 0, -1) \o Grupo(D(11)) \o DepoisDoDocumentoOuFone
\* (?:CNPJ/CPF|CNPJ)[:\s]*(\d{14})(?:\s|$|[^\d]|FONE|TELEFONE)
PadraoCnpjCru ==
    Alt(<<Literal(<<"C","N","P","J","/","C","P","F">>), Literal(<<"C","N","P","J">>)>>)
        \o Rep({":"} \cup Brancos, 0, -1) \o Grupo(D(14)) \o DepoisDoDocumentoOuFone

\* the four searches made on one line, in order
Estrategia3NaLinha(linha) ==
    OuNone(CpfValidoOuNone(limpar_cnpj_cpf(Grupo1(linha, Procurar(linha, Grupo(FormatoCpf), FALSE)))),
    OuNone(CnpjOuNone(limpar_cnpj_cpf(Grupo1(linha, Procurar(linha, Grupo(FormatoCnpj), FALSE)))),
    OuNone(CpfValidoOuNone(Grupo1(linha, Procurar(linha, PadraoCpfCru, TRUE))),
           CnpjOuNone(Grupo1(linha, Procurar(linha, PadraoCnpjCru, TRUE))))))

RECURSIVE Estrategia3Desde(_, _)
Estrategia3Desde(linhas, k) ==
    IF k > Len(linhas) THEN None
    ELSE IF Strip(linhas[k]) = <<>> THEN Estrategia3Desde(linhas, k + 1)
    ELSE OuNone(Estrategia3NaLinha(Strip(linhas[k])), Estrategia3Desde(linhas, k + 1))

Estrategia3(texto) == Estrategia3Desde(Separar(texto, "\n"), 1)

\* re.sub(r'[^\d\s]', ' ', texto)
texto_sem_pontuacao(texto) ==
    [i \in 1..Len(texto) |->
        IF texto[i] \in ConjuntoDigitos \cup Brancos THEN texto[i] ELSE " "]

tem_contexto_doc(texto) ==
    Procurar(texto,
             Alt(<<Literal(<<"C","N","P","J","/","C","P","F">>), Literal(<<"C","N","P","J">>),
                   Literal(<<"C","P","F">>)>>),
             TRUE).ok

tem_contexto_fone(texto) ==
    Procurar(texto,
             Alt(<<Literal(<<"F","O","N","E">>), Literal(<<"T","E","L","E","F","O","N","E">>)>>),
             TRUE).ok

\* (?:^|\s)(\d{n})(?:\s|$)
SequenciaIsolada(n) ==
    Alt(<<Inicio, Rep(Brancos, 1, 1)>>) \o Grupo(D(n)) \o Alt(<<Rep(Brancos, 1, 1), Fim>>)

Estrategia4Cpf(texto) ==
    IF /\ Procurar(texto_sem_pontuacao(texto), SequenciaIsolada(11), FALSE).ok
       /\ tem_contexto_doc(texto)
       /\ ~tem_contexto_fone(texto)
       /\ validar_cpf(Grupo1(texto_sem_pontuacao(texto),
                             Procurar(texto_sem_pontuacao(texto), SequenciaIsolada(11), FALSE)))
    THEN Grupo1(texto_sem_pontuacao(texto),
                Procurar(texto_sem_pontuacao(texto), SequenciaIsolada(11), FALSE))
    ELSE None

candidatos_cnpj(texto) == AcharTodos(texto_sem_pontuacao(texto), SequenciaIsolada(CNPJ_TAMANHO))

\* the filter of the candidates: not the placeholder, not starting with 00, and not
\* a run whose digits 12 and 13 are 14..19 (unless its first 11 digits are zeros)
Plausivel(candidato) ==
    /\ candidato # CNPJ_VAZIO
    /\ ~(candidato[1] = "0" /\ candidato[2] = "0")
    /\ ~(/\ Len(candidato) = 14
         /\ SubSeq(candidato, 1, 11) # [i \in 1..11 |-> "0"]
         /\ candidato[12] = "1"
         /\ candidato[13] \in {"4", "5", "6", "7", "8", "9"})

cnpjs_filtrados(texto) == SelectSeq(candidatos_cnpj(texto), Plausivel)

PrimeiroOuNone(s) == IF s # <<>> THEN s[1] ELSE None

Estrategia4Cnpj(texto) ==
    OuNone(PrimeiroOuNone(SelectSeq(cnpjs_filtrados(texto), validar_cnpj)),
           PrimeiroOuNone(cnpjs_filtrados(texto)))

Estrategia4(texto) == OuNone(Estrategia4Cpf(texto), Estrategia4Cnpj(texto))

\* (?:CNPJ|EMITENTE|DESTINAT[ÁA]RIO|CONTRANTE).*?(\d{14})(?:\s|$|[^\d]|FONE|TELEFONE)
\* under re.IGNORECASE | re.DOTALL
PadraoContexto ==
    Alt(<<Literal(<<"C","N","P","J">>), Literal(<<"E","M","I","T","E","N","T","E">>),
          Literal(<<"D","E","S","T","I","N","A","T">>) \o Rep({"Á", "A"}, 1, 1)
            \o Literal(<<"R","I","O">>),
          Literal(<<"C","O","N","T","R","A","N","T","E">>)>>)
        \o RepPreguicoso(Alfabeto, 0, -1) \o Grupo(D(CNPJ_TAMANHO)) \o DepoisDoDocumentoOuFone

AceitoNoContexto(doc) ==
    IF /\ Len(doc) = CNPJ_TAMANHO
       /\ doc # CNPJ_VAZIO
       /\ ~(doc[1] = "0" /\ doc[2] = "0" /\ doc[3] = "0")
    THEN doc ELSE None

Estrategia5(texto) ==
    AceitoNoContexto(limpar_cnpj_cpf(Grupo1(texto, Procurar(texto, PadraoContexto, TRUE))))

\* strategies 1 to 5 in their order: the first that returns
\* EstrategiasDeTexto going on after a strategy has returned: the last one to yield wins
EstrategiasDeTextoUltimaVence(texto) ==
    IF texto = <<>> THEN None
    ELSE OuNone(Estrategia5(texto), OuNone(Estrategia4(texto), OuNone(Estrategia3(texto),
         OuNone(Estrategia2(texto), Estrategia1(texto)))))

EstrategiasDeTexto(texto) ==
    IF texto = <<>> THEN None
    ELSE OuNone(Estrategia1(texto), OuNone(Estrategia2(texto), OuNone(Estrategia3(texto),
         OuNone(Estrategia4(texto), Estrategia5(texto)))))

-----------------------------------------------------------------------------
(* The noisy-OCR recovery (_extrair_cnpj_ocr_ruidoso)                      *)

\* _MAPA_OCR_DIGITOS
MapaOcrDigitos(c) ==
    CASE c \in {"O", "Q", "D"} -> "0"
      [] c \in {"I", "L", "|", "!"} -> "1"
      [] c = "Z" -> "2"
      [] c = "S" -> "5"
      [] c = "B" -> "8"
      [] c = "G" -> "6"
      [] c = "T" -> "7"
      [] OTHER -> c

\* str(texto).upper().translate(_MAPA_OCR_DIGITOS)
texto_norm(texto) == [i \in 1..Len(texto) |-> MapaOcrDigitos(Upper(texto[i]))]

\* the digits and the separators stay, the rest becomes a space
SoDigitosESeparadores(s) ==
    [i \in 1..Len(s) |-> IF s[i] \in ConjuntoDigitos \cup Separadores THEN s[i] ELSE " "]

texto_filtrado(texto) == Strip(ColapsarEspacos(SoDigitosESeparadores(texto_norm(texto))))

\* str.isdigit()
IsDigit(s) == s # <<>> /\ \A i \in 1..Len(s) : s[i] \in ConjuntoDigitos

\* candidatos_token: the token and, when it starts with a dot after a token of
\* digits, the two joined
candidatos_token(toks, i) ==
    <<toks[i]>> \o (IF toks[i] # <<>> /\ toks[i][1] = "." /\ i > 1 /\ IsDigit(toks[i - 1])
                    THEN <<toks[i - 1] \o toks[i]>> ELSE <<>>)

\* token_candidato.count('.') >= 2 and '/' in token_candidato and '-' in token_candidato
TemSeparadores(tc) ==
    /\ Cardinality({i \in 1..Len(tc) : tc[i] = "."}) >= 2
    /\ "/" \in Range(tc)
    /\ "-" \in Range(tc)

RECURSIVE StripPontuacao(_)
\* re.sub(r'\s*([./-])\s*', r'\1', token).strip(".,;:"), on a token, which holds no blank
StripPontuacao(s) ==
    IF s = <<>> THEN <<>>
    ELSE IF s[1] \in {".", ",", ";", ":"} THEN StripPontuacao(Tail(s))
    ELSE IF s[Len(s)] \in {".", ",", ";", ":"} THEN StripPontuacao(SubSeq(s, 1, Len(s) - 1))
    ELSE s

\* ^(\d{2,8})\.(\d{3,8})\.(\d{3,8})/(\d{4,8})-(\d{2,8})$
padrao_token ==
    Inicio \o Rep(ConjuntoDigitos, 2, 8) \o Literal(<<".">>) \o Rep(ConjuntoDigitos, 3, 8)
        \o Literal(<<".">>) \o Rep(ConjuntoDigitos, 3, 8) \o Literal(<<"/">>)
        \o Rep(ConjuntoDigitos, 4, 8) \o Literal(<<"-">>) \o Rep(ConjuntoDigitos, 2, 8) \o Fim

\* padrao_token.match(token_candidato)
match_token(tc) == Casar(tc, 1, padrao_token, <<0, 0>>, FALSE).ok

RECURSIVE GruposDesde(_, _)
\* match_token.groups(): what lies between the separators of a token that matches
GruposDesde(resto, seps) ==
    IF seps = <<>> THEN <<resto>>
    ELSE <<SubSeq(resto, 1, PrimeiraPosicao(resto, Head(seps)) - 1)>>
            \o GruposDesde(SubSeq(resto, PrimeiraPosicao(resto, Head(seps)) + 1, Len(resto)),
                           Tail(seps))

Grupos(tc) == GruposDesde(tc, <<".", ".", "/", "-">>)

GruposCurtos(gs) ==
    Len(gs[1]) < 2 \/ Len(gs[2]) < 3 \/ Len(gs[3]) < 3 \/ Len(gs[4]) < 4 \/ Len(gs[5]) < 2

ComPrimeiro(a, cs) == [j \in 1..Len(cs) |-> <<a>> \o cs[j]]

RECURSIVE Combinacoes(_, _, _)
\* itertools.combinations(range(a, n + 1), k), in the order it yields
Combinacoes(a, n, k) ==
    IF k = 0 THEN << <<>> >>
    ELSE IF n - a + 1 < k THEN <<>>
    ELSE ComPrimeiro(a, Combinacoes(a + 1, n, k - 1)) \o Combinacoes(a + 1, n, k)

\* ''.join(valor[i] for i in idxs)
Escolher(valor, idxs) == [i \in 1..Len(idxs) |-> valor[idxs[i]]]

\* the loop of _subsequencias, which stops at limite results
AteOLimite(valor, cs, limite) ==
    [j \in 1..(IF Len(cs) < limite THEN Len(cs) ELSE limite) |-> Escolher(valor, cs[j])]

\* _subsequencias taking only runs of neighbouring digits
SubsequenciasVizinhas(valor, tamanho, limite) ==
    IF Len(valor) < tamanho THEN <<>>
    ELSE [j \in 1..(Len(valor) - tamanho + 1) |-> SubSeq(valor, j, j + tamanho - 1)]

\* _subsequencias
Subsequencias(valor, tamanho, limite) ==
    IF Len(valor) < tamanho THEN <<>>
    ELSE IF Len(valor) = tamanho THEN <<valor>>
    ELSE AteOLimite(valor, Combinacoes(1, Len(valor), tamanho), limite)

LIMITE_TENTATIVAS == 45000

\* partes1 .. partes5
Partes(gs) ==
    << Subsequencias(gs[1], 2, 28), Subsequencias(gs[2], 3, 56), Subsequencias(gs[3], 3, 56),
       Subsequencias(gs[4], 4, 70), Subsequencias(gs[5], 2, 28) >>

Produto(ps) == Len(ps[1]) * Len(ps[2]) * Len(ps[3]) * Len(ps[4]) * Len(ps[5])

\* tentativas when the five loops are left
Tentativas(ps) == IF Produto(ps) < LIMITE_TENTATIVAS THEN Produto(ps) ELSE LIMITE_TENTATIVAS

\* the candidate of attempt n + 1 of the five nested loops, p5 running fastest
Candidato(ps, n) ==
    ps[1][(n \div (Len(ps[2]) * Len(ps[3]) * Len(ps[4]) * Len(ps[5]))) + 1]
        \o ps[2][((n \div (Len(ps[3]) * Len(ps[4]) * Len(ps[5]))) % Len(ps[2])) + 1]
        \o ps[3][((n \div (Len(ps[4]) * Len(ps[5]))) % Len(ps[3])) + 1]
        \o ps[4][((n \div Len(ps[5])) % Len(ps[4])) + 1]
        \o ps[5][(n % Len(ps[5])) + 1]

\* what the loops add to candidatos_validos
ValidosDasPartes(ps) ==
    { Candidato(ps, n) : n \in {m \in 0..(Tentativas(ps) - 1) : validar_cnpj(Candidato(ps, m))} }

\* the token candidate gets as far as the loops
Montavel(tc) ==
    /\ TemSeparadores(tc)
    /\ match_token(StripPontuacao(tc))
    /\ ~GruposCurtos(Grupos(StripPontuacao(tc)))

ValidosDoTokenCandidato(tc) ==
    IF Montavel(tc) THEN ValidosDasPartes(Partes(Grupos(StripPontuacao(tc)))) ELSE {}

\* the break out of the loop over candidatos_token
AtingiuOLimite(tc) ==
    Montavel(tc) /\ Produto(Partes(Grupos(StripPontuacao(tc)))) >= LIMITE_TENTATIVAS

RECURSIVE ValidosDosCandidatos(_, _)
ValidosDosCandidatos(cands, k) ==
    IF k > Len(cands) THEN {}
    ELSE ValidosDoTokenCandidato(cands[k])
            \cup (IF AtingiuOLimite(cands[k]) THEN {} ELSE ValidosDosCandidatos(cands, k + 1))

\* one iteration of the loop over the tokens
ValidosDoToken(toks, i) == ValidosDosCandidatos(candidatos_token(toks, i), 1)

\* tentativas when the loops over one token candidate are left
TentativasDoTokenCandidato(tc) ==
    IF Montavel(tc) THEN Tentativas(Partes(Grupos(StripPontuacao(tc)))) ELSE 0

\* the candidates assembled in one iteration of the loop over the tokens: tentativas
\* starts at 0 again for every token candidate that gets as far as the loops
RECURSIVE TentativasDosCandidatos(_, _)
TentativasDosCandidatos(cands, k) ==
    IF k > Len(cands) THEN 0
    ELSE TentativasDoTokenCandidato(cands[k])
            + (IF AtingiuOLimite(cands[k]) THEN 0 ELSE TentativasDosCandidatos(cands, k + 1))

TentativasDoToken(toks, i) == TentativasDosCandidatos(candidatos_token(toks, i), 1)

\* RetornoOcr returning the first valid candidate, whether or not it is the only one
RetornoOcrPrimeiro(validos) ==
    IF validos # {} THEN CHOOSE c \in validos : TRUE ELSE None

\* if len(candidatos_validos) == 1: return next(iter(candidatos_validos)) / return None
RetornoOcr(validos) ==
    IF Cardinality(validos) = 1 THEN CHOOSE c \in validos : TRUE ELSE None

-----------------------------------------------------------------------------
(* The extractor called on texts                                           *)

\* ''
TextoVazio == <<>>
\* '  '
TextoEmBranco == <<" "," ">>
\* 'CNPJ/CPF: 390.533.447-05'
TextoCpfRotulado ==
    <<"C","N","P","J","/","C","P","F",":"," ","3","9","0",".","5","3","3",".","4","4","7","-",
      "0","5">>
\* 'cnpj/cpf: 11.222.333/0001-81'
TextoCnpjRotulado ==
    <<"c","n","p","j","/","c","p","f",":"," ","1","1",".","2","2","2",".","3","3","3","/","0",
      "0","0","1","-","8","1">>
\* 'CNPJ/CPF: 11.222.333/0001-82 FONE 1133334444'
TextoCnpjRotuladoInvalido ==
    <<"C","N","P","J","/","C","P","F",":"," ","1","1",".","2","2","2",".","3","3","3","/","0",
      "0","0","1","-","8","2"," ","F","O","N","E"," ","1","1","3","3","3","3","4","4","4","4">>
\* 'CNPJ/CPF: 11222333000181'
TextoCnpjRotuladoCru ==
    <<"C","N","P","J","/","C","P","F",":"," ","1","1","2","2","2","3","3","3","0","0","0","1",
      "8","1">>
\* 'CNPJ/CPF: 111.222.333-00'
TextoCpfRotuladoInvalido ==
    <<"C","N","P","J","/","C","P","F",":"," ","1","1","1",".","2","2","2",".","3","3","3","-",
      "0","0">>
\* 'CNPJ/CPF: 99.999.999/9999-99 11.2222.333/0001-81'
TextoRotuladoEOcr ==
    <<"C","N","P","J","/","C","P","F",":"," ","9","9",".","9","9","9",".","9","9","9","/","9",
      "9","9","9","-","9","9"," ","1","1",".","2","2","2","2",".","3","3","3","/","0","0","0",
      "1","-","8","1">>
\* '11.222.333/0001-81'
TextoCnpjFormatado ==
    <<"1","1",".","2","2","2",".","3","3","3","/","0","0","0","1","-","8","1">>
\* '11.222.333/0001-82'
TextoCnpjFormatadoInvalido ==
    <<"1","1",".","2","2","2",".","3","3","3","/","0","0","0","1","-","8","2">>
\* 'Doc 390.533.447-05'
TextoCpfFormatado == <<"D","o","c"," ","3","9","0",".","5","3","3",".","4","4","7","-","0","5">>
\* '11.222.333.0001-81'
TextoCnpjComPontos ==
    <<"1","1",".","2","2","2",".","3","3","3",".","0","0","0","1","-","8","1">>
\* 'Nome\nCNPJ 11222333000181'
TextoCnpjCruNaLinha ==
    <<"N","o","m","e","\n","C","N","P","J"," ","1","1","2","2","2","3","3","3","0","0","0","1",
      "8","1">>
\* 'CPF: 39053344705 FONE'
TextoCpfCruNaLinha ==
    <<"C","P","F",":"," ","3","9","0","5","3","3","4","4","7","0","5"," ","F","O","N","E">>
\* 'CPF\n39053344705'
TextoCpfOutraLinha == <<"C","P","F","\n","3","9","0","5","3","3","4","4","7","0","5">>
\* 'FONE CPF\n39053344705'
TextoCpfComFone ==
    <<"F","O","N","E"," ","C","P","F","\n","3","9","0","5","3","3","4","4","7","0","5">>
\* '92660406007636'
TextoCnpjCru == <<"9","2","6","6","0","4","0","6","0","0","7","6","3","6">>
\* '92660406007637'
TextoCnpjCruInvalido == <<"9","2","6","6","0","4","0","6","0","0","7","6","3","7">>
\* '11222333000181'
TextoCnpjCruFiltrado == <<"1","1","2","2","2","3","3","3","0","0","0","1","8","1">>
\* '92660406007637  92660406007636'
TextoDoisCrus ==
    <<"9","2","6","6","0","4","0","6","0","0","7","6","3","7"," "," ","9","2","6","6","0","4",
      "0","6","0","0","7","6","3","6">>
\* '92660406007637 92660406007636'
TextoDoisCrusColados ==
    <<"9","2","6","6","0","4","0","6","0","0","7","6","3","7"," ","9","2","6","6","0","4","0",
      "6","0","0","7","6","3","6">>
\* '00222333000181  92660406007637'
TextoCruComZeros ==
    <<"0","0","2","2","2","3","3","3","0","0","0","1","8","1"," "," ","9","2","6","6","0","4",
      "0","6","0","0","7","6","3","7">>
\* 'EMITENTE x11222333000181'
TextoContexto ==
    <<"E","M","I","T","E","N","T","E"," ","x","1","1","2","2","2","3","3","3","0","0","0","1",
      "8","1">>
\* '1I.222.333/OOO1-81'
TextoOcrLetras == <<"1","I",".","2","2","2",".","3","3","3","/","O","O","O","1","-","8","1">>
\* '11.2222.333/0001-81'
TextoOcrGrupoMaior ==
    <<"1","1",".","2","2","2","2",".","3","3","3","/","0","0","0","1","-","8","1">>
\* '11.2232.333/0001-81'
TextoOcrDigitoIntruso ==
    <<"1","1",".","2","2","3","2",".","3","3","3","/","0","0","0","1","-","8","1">>
\* '11.2222.333/0001-82'
TextoOcrSemValido ==
    <<"1","1",".","2","2","2","2",".","3","3","3","/","0","0","0","1","-","8","2">>
\* '112.222.333/0001-81'
TextoPrimeiroGrupoMaior ==
    <<"1","1","2",".","2","2","2",".","3","3","3","/","0","0","0","1","-","8","1">>
\* '11.2222.333/0001-81 92.6660.406/0076-36'
TextoOcrDoisValidos ==
    <<"1","1",".","2","2","2","2",".","3","3","3","/","0","0","0","1","-","8","1"," ","9","2",
      ".","6","6","6","0",".","4","0","6","/","0","0","7","6","-","3","6">>
\* '11.222.333/0001-81 92.660.406/0076-36'
TextoDoisFormatados ==
    <<"1","1",".","2","2","2",".","3","3","3","/","0","0","0","1","-","8","1"," ","9","2",".",
      "6","6","0",".","4","0","6","/","0","0","7","6","-","3","6">>
\* '11.2222.333/0001-81 11.222.3333/0001-81'
TextoOcrMesmoDuasVezes ==
    <<"1","1",".","2","2","2","2",".","3","3","3","/","0","0","0","1","-","8","1"," ","1","1",
      ".","2","2","2",".","3","3","3","3","/","0","0","0","1","-","8","1">>
\* '11 .2222.333/0001-81'
TextoOcrBlocoSeparado ==
    <<"1","1"," ",".","2","2","2","2",".","3","3","3","/","0","0","0","1","-","8","1">>
\* '1 .2222.333/0001-81'
TextoOcrBlocoCurto ==
    <<"1"," ",".","2","2","2","2",".","3","3","3","/","0","0","0","1","-","8","1">>
\* 'x.11.2222.333/0001-81'
TextoOcrPontoInicial ==
    <<"x",".","1","1",".","2","2","2","2",".","3","3","3","/","0","0","0","1","-","8","1">>
\* 'TEL 11.2222.333/0001-81'
TextoOcrComTelefone ==
    <<"T","E","L"," ","1","1",".","2","2","2","2",".","3","3","3","/","0","0","0","1","-","8",
      "1">>
\* '111222333.2222.333/0001-81'
TextoOcrGrupoLongo ==
    <<"1","1","1","2","2","2","3","3","3",".","2","2","2","2",".","3","3","3","/","0","0","0",
      "1","-","8","1">>
\* '00000092.00000660.40600/0076-361'
TextoOcrAlemDoLimite ==
    <<"0","0","0","0","0","0","9","2",".","0","0","0","0","0","6","6","0",".","4","0","6","0",
      "0","/","0","0","7","6","-","3","6","1">>
\* '11.2222.333/0001-81 00000092.00000660.40600/0076-361'
TextoOcrValidoEAlemDoLimite ==
    <<"1","1",".","2","2","2","2",".","3","3","3","/","0","0","0","1","-","8","1"," ","0","0",
      "0","0","0","0","9","2",".","0","0","0","0","0","6","6","0",".","4","0","6","0","0","/",
      "0","0","7","6","-","3","6","1">>

\* 'CNPJ/CPF: 92660406007636 11.222.333/0001-81'
TextoRotuladoEFormatado ==
    <<"C","N","P","J","/","C","P","F",":"," ","9","2","6","6","0","4","0","6","0","0","7","6",
      "3","6"," ","1","1",".","2","2","2",".","3","3","3","/","0","0","0","1","-","8","1">>
\* '390.533.447-05 11.222.333/0001-81'
TextoCpfECnpjFormatados ==
    <<"3","9","0",".","5","3","3",".","4","4","7","-","0","5"," ","1","1",".","2","2","2",".",
      "3","3","3","/","0","0","0","1","-","8","1">>
\* 'EMITENTE 00660406007636  92660406007636'
TextoContextoECru ==
    <<"E","M","I","T","E","N","T","E"," ","0","0","6","6","0","4","0","6","0","0","7","6","3",
      "6"," "," ","9","2","6","6","0","4","0","6","0","0","7","6","3","6">>
\* 'CPF 39053344705 FONE 92660406007636'
TextoCpfCruEFone ==
    <<"C","P","F"," ","3","9","0","5","3","3","4","4","7","0","5"," ","F","O","N","E"," ","9",
      "2","6","6","0","4","0","6","0","0","7","6","3","6">>

TextosExtrator ==
    { TextoVazio, TextoEmBranco, TextoCpfRotulado, TextoCnpjRotulado,
      TextoCnpjRotuladoInvalido, TextoCnpjRotuladoCru, TextoCpfRotuladoInvalido,
      TextoRotuladoEOcr, TextoCnpjFormatado, TextoCnpjFormatadoInvalido, TextoCpfFormatado,
      TextoCnpjComPontos, TextoCnpjCruNaLinha, TextoCpfCruNaLinha, TextoCpfOutraLinha,
      TextoCpfComFone, TextoCnpjCru, TextoCnpjCruInvalido, TextoCnpjCruFiltrado, TextoDoisCrus,
      TextoDoisCrusColados, TextoCruComZeros, TextoContexto, TextoOcrLetras,
      TextoOcrGrupoMaior, TextoOcrDigitoIntruso, TextoOcrSemValido, TextoPrimeiroGrupoMaior,
      TextoOcrDoisValidos, TextoDoisFormatados, TextoOcrMesmoDuasVezes, TextoOcrBlocoSeparado,
      TextoOcrBlocoCurto, TextoOcrPontoInicial, TextoOcrComTelefone, TextoOcrGrupoLongo,
      TextoOcrAlemDoLimite, TextoOcrValidoEAlemDoLimite, TextoRotuladoEFormatado,
      TextoCpfECnpjFormatados, TextoContextoECru, TextoCpfCruEFone }

FuncoesExtrator == {"extrair_cnpj_do_texto", "_extrair_cnpj_ocr_ruidoso"}

InitExtrator ==
    /\ pc = "chamada"
    /\ fail_fast = FALSE
    /\ registro = <<>>
    /\ erros_encontrados = <<>>
    /\ texto_pagina = <<>>
    /\ labels_encontrados = <<>>
    /\ labels_faltando = <<>>
    /\ retorno = SemRetorno
    /\ chamadas = 0
    /\ SemLote
    /\ funcao_chamada \in FuncoesExtrator
    /\ texto_entrada \in TextosExtrator
    /\ tokens = <<>>
    /\ idx_token = 0
    /\ candidatos_validos = {}
    /\ cnpj_extraido = None
    /\ montados = 0
    /\ SemLinha
    /\ SemNome
    /\ SemExecucoes

\* extrair_cnpj_do_texto up to the call of _extrair_cnpj_ocr_ruidoso: strategies 1 to 5
ExtrairCnpjDoTexto ==
    /\ pc = "chamada"
    /\ funcao_chamada = "extrair_cnpj_do_texto"
    /\ IF EstrategiasDeTexto(texto_entrada) # None
       THEN /\ cnpj_extraido' = EstrategiasDeTexto(texto_entrada)
            /\ pc' = "cnpj_retornado"
       ELSE /\ cnpj_extraido' = None
            /\ pc' = IF texto_entrada = <<>> THEN "cnpj_retornado" ELSE "ocr_ruidoso"
    /\ UNCHANGED <<fail_fast, retorno, funcao_chamada, texto_entrada, tokens, idx_token,
                   candidatos_validos, montados>>
    /\ UNCHANGED <<varsValidador, varsEstrutura, varsLote, varsParser, varsNome, varsExecucoes>>

\* _extrair_cnpj_ocr_ruidoso up to the loop over the tokens
ExtrairCnpjOcrRuidoso ==
    /\ \/ pc = "chamada" /\ funcao_chamada = "_extrair_cnpj_ocr_ruidoso"
       \/ pc = "ocr_ruidoso"
    /\ IF texto_entrada = <<>> \/ texto_filtrado(texto_entrada) = <<>>
       THEN /\ pc' = "cnpj_retornado"
            /\ UNCHANGED <<tokens, idx_token>>
       ELSE /\ tokens' = Separar(texto_filtrado(texto_entrada), " ")
            /\ idx_token' = 1
            /\ pc' = "tokens"
    /\ candidatos_validos' = {}
    /\ montados' = 0
    /\ cnpj_extraido' = None
    /\ UNCHANGED <<fail_fast, retorno, funcao_chamada, texto_entrada>>
    /\ UNCHANGED <<varsValidador, varsEstrutura, varsLote, varsParser, varsNome, varsExecucoes>>

\* one iteration of the loop over the tokens
ExaminarToken ==
    /\ pc = "tokens"
    /\ idx_token <= Len(tokens)
    /\ candidatos_validos' = candidatos_validos \cup ValidosDoToken(tokens, idx_token)
    /\ montados' = montados + TentativasDoToken(tokens, idx_token)
    /\ idx_token' = idx_token + 1
    /\ UNCHANGED <<pc, fail_fast, retorno, funcao_chamada, texto_entrada, tokens, cnpj_extraido>>
    /\ UNCHANGED <<varsValidador, varsEstrutura, varsLote, varsParser, varsNome, varsExecucoes>>

\* the end of _extrair_cnpj_ocr_ruidoso, and of extrair_cnpj_do_texto when it called it
RetornarCnpjOcr ==
    /\ pc = "tokens"
    /\ idx_token > Len(tokens)
    /\ cnpj_extraido' = RetornoOcr(candidatos_validos)
    /\ pc' = "cnpj_retornado"
    /\ UNCHANGED <<fail_fast, retorno, funcao_chamada, texto_entrada, tokens, idx_token,
                   candidatos_validos, montados>>
    /\ UNCHANGED <<varsValidador, varsEstrutura, varsLote, varsParser, varsNome, varsExecucoes>>

NextExtrator ==
    \/ ExtrairCnpjDoTexto
    \/ ExtrairCnpjOcrRuidoso
    \/ ExaminarToken
    \/ RetornarCnpjOcr

SpecExtrator == InitExtrator /\ [][NextExtrator]_vars

-----------------------------------------------------------------------------
(* Claims about the extractor                                              *)

\* the token candidates of a text from which the recovery assembles identifiers
TokensMontaveis(texto) ==
    { tc \in UNION { Range(candidatos_token(Separar(texto_filtrado(texto), " "), i)) :
                        i \in 1..Len(Separar(texto_filtrado(texto), " ")) } :
        Montavel(tc) }

TokensDoCatalogo == UNION { TokensMontaveis(t) : t \in TextosExtrator }

\* the ways of picking k of n positions, in order
Crescentes(n, k) == { f \in [1..k -> 1..n] : \A i \in 1..(k - 1) : f[i] < f[i + 1] }

Selecionar(g, f) == [i \in DOMAIN f |-> g[f[i]]]

LexMenor(h, f) == \E i \in DOMAIN f : h[i] < f[i] /\ \A j \in 1..(i - 1) : h[j] = f[j]

\* the sizes of the selections, and the lengths a group can have
ChavesDeSelecao == UNION { {<<k, n, f>> : f \in Crescentes(n, k)} : k \in 2..4, n \in 2..8 }

\* how many selections of k of n positions come before f in lexicographic order
Postos ==
    [x \in ChavesDeSelecao |->
        Cardinality({h \in Crescentes(x[2], x[1]) : LexMenor(h, x[3])})]

Posto(g, k, f) == Postos[<<k, Len(g), f>>]

\* how many selections of k of n positions there are
Quantidades == [x \in (2..4) \X (2..8) |-> Cardinality(Crescentes(x[2], x[1]))]

Quantas(g, k) == Quantidades[<<k, Len(g)>>]

\* how many selections are assembled before s when the first group's selection
\* varies slowest and the last group's fastest
Ordem(gs, s) ==
    (((Posto(gs[1], 2, s[1]) * Quantas(gs[2], 3) + Posto(gs[2], 3, s[2])) * Quantas(gs[3], 3)
        + Posto(gs[3], 3, s[3])) * Quantas(gs[4], 4) + Posto(gs[4], 4, s[4])) * Quantas(gs[5], 2)
        + Posto(gs[5], 2, s[5])

\* the digit strings that k digits of a group, taken in order, can make
SubSelecoes(g, k) == { Selecionar(g, f) : f \in Crescentes(Len(g), k) }

\* the identifiers that sub-selections of sizes 2, 3, 3, 4 and 2 of the groups can assemble
Montagens(gs) ==
    { a \o b \o c \o d \o e :
        a \in SubSelecoes(gs[1], 2), b \in SubSelecoes(gs[2], 3), c \in SubSelecoes(gs[3], 3),
        d \in SubSelecoes(gs[4], 4), e \in SubSelecoes(gs[5], 2) }

\* the checksum-valid identifiers a token's groups can assemble: all of them, and those
\* that one of the first LIMITE_TENTATIVAS selections assembles
ReconstrucoesDosGrupos(gs) == { c \in Montagens(gs) : validar_cnpj(c) }

\* the 2, 3, 3, 4 and 2 digits of an identifier
PartesDe(c) == <<SubSeq(c, 1, 2), SubSeq(c, 3, 5), SubSeq(c, 6, 8), SubSeq(c, 9, 12), SubSeq(c, 13, 14)>>

\* the selections that pick part x out of group g
SelecoesDaParte(g, x) == { f \in Crescentes(Len(g), Len(x)) : Selecionar(g, f) = x }

\* the selections that assemble identifier c
SelecoesDe(gs, c) ==
    SelecoesDaParte(gs[1], PartesDe(c)[1]) \X SelecoesDaParte(gs[2], PartesDe(c)[2])
        \X SelecoesDaParte(gs[3], PartesDe(c)[3]) \X SelecoesDaParte(gs[4], PartesDe(c)[4])
        \X SelecoesDaParte(gs[5], PartesDe(c)[5])

ReconstrucoesNoLimiteDosGrupos(gs) ==
    { c \in ReconstrucoesDosGrupos(gs) :
        \E s \in SelecoesDe(gs, c) : Ordem(gs, s) < LIMITE_TENTATIVAS }

ReconstrucoesDoToken ==
    [tc \in TokensDoCatalogo |-> ReconstrucoesDosGrupos(Grupos(StripPontuacao(tc)))]

ReconstrucoesNoLimiteDoToken ==
    [tc \in TokensDoCatalogo |-> ReconstrucoesNoLimiteDosGrupos(Grupos(StripPontuacao(tc)))]

\* the distinct checksum-valid reconstructions across a whole text
Reconstrucoes(texto) == UNION { ReconstrucoesDoToken[tc] : tc \in TokensMontaveis(texto) }

ReconstrucoesNoLimite(texto) ==
    UNION { ReconstrucoesNoLimiteDoToken[tc] : tc \in TokensMontaveis(texto) }

RetornouDe(funcao) == pc = "cnpj_retornado" /\ funcao_chamada = funcao

\* C4 as stated: _extrair_cnpj_ocr_ruidoso returns an identifier only if it is the
\* single distinct checksum-valid identifier that sub-selections of sizes 2,3,3,4,2 of
\* the groups of the matching tokens of the whole input can assemble; with none, or
\* with two or more, it returns no result.
C4_Original ==
    RetornouDe("_extrair_cnpj_ocr_ruidoso") =>
        /\ cnpj_extraido # None => Reconstrucoes(texto_entrada) = {cnpj_extraido}
        /\ Cardinality(Reconstrucoes(texto_entrada)) # 1 => cnpj_extraido = None

\* C4 as amended: _extrair_cnpj_ocr_ruidoso returns an identifier only if it is the
\* single distinct checksum-valid identifier among those assembled within the first
\* 45,000 attempts on each matching token of the whole input; with none, or with two
\* or more, among these it returns no result.
C4_UnicoDentroDoLimite ==
    RetornouDe("_extrair_cnpj_ocr_ruidoso") =>
        /\ cnpj_extraido # None => ReconstrucoesNoLimite(texto_entrada) = {cnpj_extraido}
        /\ Cardinality(ReconstrucoesNoLimite(texto_entrada)) # 1 => cnpj_extraido = None

\* the recovery returned an identifier for a text with a token whose attempts the
\* limit cuts short of another valid reconstruction
C4_Witness ==
    /\ RetornouDe("_extrair_cnpj_ocr_ruidoso")
    /\ cnpj_extraido # None
    /\ ReconstrucoesNoLimite(texto_entrada) # Reconstrucoes(texto_entrada)

\* C5 as stated: for any text from which the noisy-OCR strategy can assemble exactly
\* one checksum-valid candidate, extrair_cnpj_do_texto returns that candidate; if it
\* can assemble two or more distinct valid candidates, it returns none.
C5_Original ==
    RetornouDe("extrair_cnpj_do_texto") =>
        /\ Cardinality(Reconstrucoes(texto_entrada)) = 1
                => Reconstrucoes(texto_entrada) = {cnpj_extraido}
        /\ Cardinality(Reconstrucoes(texto_entrada)) >= 2 => cnpj_extraido = None

\* C5 as amended: for any text on which none of the strategies 1 to 5 returns, if the
\* noisy-OCR strategy assembles exactly one checksum-valid candidate within the first
\* 45,000 attempts on each matching token, extrair_cnpj_do_texto returns that
\* candidate; if it assembles two or more distinct valid candidates, it returns none.
C5_QuandoAsOutrasNadaRetornam ==
    (RetornouDe("extrair_cnpj_do_texto") /\ EstrategiasDeTexto(texto_entrada) = None) =>
        /\ Cardinality(ReconstrucoesNoLimite(texto_entrada)) = 1
                => ReconstrucoesNoLimite(texto_entrada) = {cnpj_extraido}
        /\ Cardinality(ReconstrucoesNoLimite(texto_entrada)) >= 2 => cnpj_extraido = None

\* extrair_cnpj_do_texto returned the one candidate the recovery assembles from a
\* token with an oversized group, on a text the other strategies get nothing from
C5_Witness ==
    /\ RetornouDe("extrair_cnpj_do_texto")
    /\ EstrategiasDeTexto(texto_entrada) = None
    /\ ReconstrucoesNoLimite(texto_entrada) = {cnpj_extraido}
    /\ \E tc \in TokensMontaveis(texto_entrada) : Produto(Partes(Grupos(StripPontuacao(tc)))) > 1

\* what strategy k of extrair_cnpj_do_texto yields on a text, taken alone
ResultadoDaEstrategia(k, texto) ==
    CASE k = 1 -> Estrategia1(texto)
      [] k = 2 -> Estrategia2(texto)
      [] k = 3 -> Estrategia3(texto)
      [] k = 4 -> Estrategia4(texto)
      [] k = 5 -> Estrategia5(texto)

NenhumaAntesDe(k, texto) == \A j \in 1..(k - 1) : ResultadoDaEstrategia(j, texto) = None

OcrConsultado == pc \in {"ocr_ruidoso", "tokens"} \/ tokens # <<>>

\* C11: the strategies of extrair_cnpj_do_texto run in strict priority order and the
\* first one that yields a candidate decides the result; the noisy-OCR recovery is
\* consulted only when strategies 1 to 5 all yielded nothing, and the function
\* returns no result only when all six strategies fail.
C11_PrioridadeEstrita ==
    funcao_chamada = "extrair_cnpj_do_texto" =>
        /\ OcrConsultado => NenhumaAntesDe(6, texto_entrada)
        /\ pc = "cnpj_retornado" =>
            /\ \A k \in 1..5 :
                  (ResultadoDaEstrategia(k, texto_entrada) # None
                        /\ NenhumaAntesDe(k, texto_entrada))
                    => /\ cnpj_extraido = ResultadoDaEstrategia(k, texto_entrada)
                       /\ ~OcrConsultado
            /\ cnpj_extraido = None =>
                  /\ NenhumaAntesDe(6, texto_entrada)
                  /\ Cardinality(candidatos_validos) # 1
            /\ (NenhumaAntesDe(6, texto_entrada) /\ Cardinality(candidatos_validos) = 1)
                    => candidatos_validos = {cnpj_extraido}

\* a text on which two strategies yield different identifiers, the earlier one returned
C11_Witness ==
    /\ RetornouDe("extrair_cnpj_do_texto")
    /\ \E k \in 1..4 : \E j \in (k + 1)..5 :
          /\ NenhumaAntesDe(k, texto_entrada)
          /\ ResultadoDaEstrategia(k, texto_entrada) # None
          /\ ResultadoDaEstrategia(j, texto_entrada) # None
          /\ ResultadoDaEstrategia(j, texto_entrada) # ResultadoDaEstrategia(k, texto_entrada)
          /\ cnpj_extraido = ResultadoDaEstrategia(k, texto_entrada)

\* C30: every result of extrair_cnpj_do_texto that is not None is made of digits
\* only and has exactly 11 or exactly 14 of them, whichever strategy produced it;
\* every result of 11 digits passes the checksum of the personal identifier; and an
\* empty text yields None.
C30_ResultadoBemFormado ==
    RetornouDe("extrair_cnpj_do_texto") =>
        /\ texto_entrada = <<>> => cnpj_extraido = None
        /\ cnpj_extraido # None =>
              /\ \A i \in 1..Len(cnpj_extraido) : EhDigito(cnpj_extraido[i])
              /\ Len(cnpj_extraido) \in {11, 14}
              /\ Len(cnpj_extraido) = 11 => validar_cpf(cnpj_extraido)

\* a personal identifier of 11 digits was returned by a strategy after the first, on
\* a text whose labelled identifier had failed the checksum or was not there
C30_Witness ==
    /\ RetornouDe("extrair_cnpj_do_texto")
    /\ cnpj_extraido # None
    /\ Len(cnpj_extraido) = 11
    /\ validar_cpf(cnpj_extraido)
    /\ \E k \in 2..5 :
          /\ NenhumaAntesDe(k, texto_entrada)
          /\ cnpj_extraido = ResultadoDaEstrategia(k, texto_entrada)

\* C19: in one call of _extrair_cnpj_ocr_ruidoso the candidates assembled over all
\* the tokens never number more than 45,000, and once that many have been assembled
\* no further candidate is assembled.
C19_TetoDaBuscaInteira ==
    [][/\ montados' <= LIMITE_TENTATIVAS
       /\ (montados >= LIMITE_TENTATIVAS => montados' = montados)]_vars

-----------------------------------------------------------------------------
(* Claims about the structure validator, continued                          *)

\* C23 as stated: after any sequence of calls of validar_estrutura and
\* validar_estrutura_silencioso the found-map and the missing list the validator
\* holds are those of the text of the last call: the missing list names exactly the
\* labels whose found-flag is false.
C23_EstadoDaUltimaChamada ==
    chamadas >= 1 =>
        /\ labels_encontrados = LabelsDoTexto[texto_pagina]
        /\ Range(labels_faltando) = {nome \in Range(NomesLabels) : ~labels_encontrados[nome]}

-----------------------------------------------------------------------------
(* Claims about the field validator, continued                             *)

\* C12: validar_registro_completo never mutates the record it checks: with either
\* fail_fast setting and whatever errors it returns, every field of the record has
\* the same value after the call as before.
C12_RegistroIntocado == [][registro' = registro]_vars

\* a fail-fast call that returned errors on a record whose document date is None
C12_Witness ==
    /\ pc = "validado"
    /\ fail_fast
    /\ erros_encontrados # <<>>
    /\ Get(registro, "nf_data", <<>>) = None

\* the fields in the order of the rule list of the specification, and in the order
\* in which validar_registro_completo runs its rules
OrdemDaEspecificacao ==
    << "nf_numero", "nf_data", "cte_data", "cte_numero", "CNPJ Emitente",
       "CNPJ Contratante", "CNPJ Destinatário", "Nome Emitente", "Nome Contratante",
       "Nome Destinatário", "recebedor" >>

OrdemDoCodigo ==
    << "nf_numero", "nf_data", "cte_numero", "cte_data", "CNPJ Emitente",
       "CNPJ Contratante", "CNPJ Destinatário", "Nome Emitente", "Nome Contratante",
       "Nome Destinatário", "recebedor" >>

PosicaoEm(ordem, campo) == CHOOSE k \in 1..Len(ordem) : ordem[k] = campo

\* every error is of a field of the order, and the fields of the errors come in that
\* order, none twice
SegueAOrdem(erros, ordem) ==
    /\ \A i \in 1..Len(erros) : \E k \in 1..Len(ordem) : ordem[k] = erros[i].campo
    /\ \A i \in 1..Len(erros) : \A j \in (i + 1)..Len(erros) :
          PosicaoEm(ordem, erros[i].campo) < PosicaoEm(ordem, erros[j].campo)

\* what the rule of one field finds in a record, taken alone
AchadoDoCampo(reg, campo) ==
    CASE campo = "nf_numero" -> validar_nf_numero(reg)
      [] campo = "nf_data" -> validar_nf_data(reg)
      [] campo = "cte_numero" -> validar_cte_numero(reg)
      [] campo = "cte_data" -> validar_cte_data(reg)
      [] campo = "CNPJ Emitente" -> validar_cnpj_emitente(Get(reg, "emitente_cnpj", <<>>))
      [] campo = "CNPJ Contratante" ->
            validar_cnpj_campo(Get(reg, "contratante_cnpj", <<>>), campo)
      [] campo = "CNPJ Destinatário" ->
            validar_cnpj_campo(Get(reg, "destinatario_cnpj", <<>>), campo)
      [] campo = "Nome Emitente" -> validar_nome(Get(reg, "emitente_nome", <<>>), campo)
      [] campo = "Nome Contratante" -> validar_nome(Get(reg, "contratante_nome", <<>>), campo)
      [] campo = "Nome Destinatário" -> validar_nome(Get(reg, "destinatario_nome", <<>>), campo)
      [] campo = "recebedor" -> validar_recebedor(reg)

\* all findings: every field whose rule finds something has its error in the list
TodosOsAchados(erros, reg) ==
    \A k \in 1..Len(OrdemDoCodigo) :
        AchadoDoCampo(reg, OrdemDoCodigo[k]) # <<>>
            => \E i \in 1..Len(erros) : <<erros[i]>> = AchadoDoCampo(reg, OrdemDoCodigo[k])

ValidouSemFailFast == pc = "validado" /\ ~fail_fast

\* C14 as stated: with fail_fast off the findings come in the order document number,
\* document date, transport-document date, transport-document number, emitter,
\* contractor and recipient identifiers, emitter, contractor and recipient names,
\* receiver name, one error per field at most.
C14_Original ==
    ValidouSemFailFast =>
        /\ SegueAOrdem(erros_encontrados, OrdemDaEspecificacao)
        /\ TodosOsAchados(erros_encontrados, registro)

\* C14, amended: the same with the transport-document number before the
\* transport-document date.
C14_OrdemDoCodigo ==
    ValidouSemFailFast =>
        /\ SegueAOrdem(erros_encontrados, OrdemDoCodigo)
        /\ TodosOsAchados(erros_encontrados, registro)

\* a record with findings on both transport-document fields, among five or more
C14_Witness ==
    /\ ValidouSemFailFast
    /\ Len(erros_encontrados) >= 5
    /\ \E i \in 1..Len(erros_encontrados) : erros_encontrados[i].campo = "cte_numero"
    /\ \E i \in 1..Len(erros_encontrados) : erros_encontrados[i].campo = "cte_data"

\* the transport-document fields as the claim classifies them
CteNumeroNormalizado(reg) == NormalizarTexto(Get(reg, "cte_numero", <<>>))
CteDataNormalizada(reg) == NormalizarTexto(Get(reg, "cte_data", <<>>))

CteNumeroFaltandoOuMalformado(reg) ==
    \/ CteNumeroNormalizado(reg) = <<>>
    \/ ~SoDigitosEntre(CteNumeroNormalizado(reg), 1, 9)

CteDataFaltandoOuMalFormatada(reg) ==
    \/ CteDataNormalizada(reg) = <<>>
    \/ ~FormatoDataBr(CteDataNormalizada(reg))

CteDataForaDoCalendario(reg) ==
    /\ CteDataNormalizada(reg) # <<>>
    /\ FormatoDataBr(CteDataNormalizada(reg))
    /\ ~DataExiste(CteDataNormalizada(reg))

\* the rule of a field was run: the call returned and did not stop before it
RegraExecutada(campo) ==
    /\ pc = "validado"
    /\ \/ ~fail_fast
       \/ \A k \in 1..(PosicaoEm(OrdemDoCodigo, campo) - 1) :
              AchadoDoCampo(registro, OrdemDoCodigo[k]) = <<>>

SeveridadesDoCampo(erros, campo) ==
    { erros[i].severidade : i \in { j \in 1..Len(erros) : erros[j].campo = campo } }

SeveridadesCte(severidade) ==
    /\ (RegraExecutada("cte_numero") /\ CteNumeroFaltandoOuMalformado(registro))
            => SeveridadesDoCampo(erros_encontrados, "cte_numero") = {severidade}
    /\ (RegraExecutada("cte_data") /\ CteDataFaltandoOuMalFormatada(registro))
            => SeveridadesDoCampo(erros_encontrados, "cte_data") = {severidade}
    /\ (RegraExecutada("cte_data") /\ CteDataForaDoCalendario(registro))
            => SeveridadesDoCampo(erros_encontrados, "cte_data") = {"ERRO"}

\* C15 as stated: a missing or malformed transport-document number (not 1 to 9
\* digits) and a missing or badly formatted transport-document date are reported
\* with severity CRITICAL, and a well-formatted date that is not a calendar date
\* with severity ERROR.
C15_Original == SeveridadesCte("CRITICO")

\* C15, amended: all three are reported with severity ERROR.
C15_CteComSeveridadeErro == SeveridadesCte("ERRO")

\* a record whose transport-document number and date are both missing or malformed,
\* with both errors in the list
C15_Witness ==
    /\ RegraExecutada("cte_data")
    /\ CteNumeroFaltandoOuMalformado(registro)
    /\ CteDataFaltandoOuMalFormatada(registro)
    /\ SeveridadesDoCampo(erros_encontrados, "cte_numero") # {}
    /\ SeveridadesDoCampo(erros_encontrados, "cte_data") # {}

-----------------------------------------------------------------------------
(* Claims about the pipeline, continued                                    *)

\* C13: the audit step (_auditar_para_humano) is read-only with respect to the
\* record: it changes no field of any record and never drops or blocks the record
\* (the record is appended to the output right after it); apart from the position of
\* the loop, only the emitted events and the manual-adjustment counter change.
C13_AuditoriaSoLeitura ==
    [][pc = "auditar" =>
          /\ registros' = registros
          /\ nfs_finais' = Append(nfs_finais, nfs_extraidas[idx])
          /\ nfs_extraidas' = nfs_extraidas
          /\ ajustes_manuais_count' >= ajustes_manuais_count
          /\ SubSeq(eventos', 1, Len(eventos)) = eventos
          /\ UNCHANGED <<registros_corrigidos_count, registros_com_erros_count,
                         registros_com_erros_criticos_count, total_erros_encontrados,
                         erros_por_nf, indice_docs_por_nome, base_conhecimento,
                         erros_encontrados, retorno>>]_vars

\* a record that the audit flagged for the human is in the output, still with the
\* flagged values, and the next record is up for validation
C13_Witness ==
    /\ pc = "validar"
    /\ idx = 2
    /\ estado[nfs_extraidas[1]] = "AUDITED"
    /\ nfs_finais = <<nfs_extraidas[1]>>
    /\ Len(AuditarParaHumano(registros[nfs_extraidas[1]])) >= 2
    /\ ajustes_manuais_count >= 2

\* the number of errors stored in a dict of error lists
RECURSIVE SomaDosErros(_, _)
SomaDosErros(d, chaves) ==
    IF chaves = {} THEN 0
    ELSE LET k == CHOOSE x \in chaves : TRUE
         IN  Len(d[k]) + SomaDosErros(d, chaves \ {k})

\* the errors of the i-th record of the batch, on the values it had when the call began
ErrosDoRegistro(i) == validar_registro_completo(lote_inicial[nfs_extraidas[i]], fail_fast)

\* C16: per-record issues are always enumerable after a run: after
\* filtrar_dados_validos the errors of every record that had validation errors are
\* retrievable from erros_por_nf, the number of errors stored there equals
\* total_erros_encontrados and its number of keys equals registros_com_erros_count,
\* also when records share a document number or have none.
C16_ErrosEnumeraveis ==
    pc = "retornou" =>
        /\ \A i \in 1..Len(nfs_extraidas) :
              ErrosDoRegistro(i) # <<>>
                  => \E k \in DOMAIN erros_por_nf : erros_por_nf[k] = ErrosDoRegistro(i)
        /\ SomaDosErros(erros_por_nf, DOMAIN erros_por_nf) = total_erros_encontrados
        /\ Cardinality(DOMAIN erros_por_nf) = registros_com_erros_count

\* the loop of filtrar_dados_validos is running or has ended
LoteEmCurso == pc \in {"validar", "corrigir", "auditar", "relatorio", "retornou"}

\* where the j-th record of the list stands while the loop is at idx
EstadoEsperado(j) ==
    IF j < idx THEN "AUDITED"
    ELSE IF j > idx THEN "RAW"
    ELSE CASE pc = "validar" -> "RAW"
           [] pc = "corrigir" -> "VALIDATED"
           [] pc = "auditar" -> "CORRECTION_ATTEMPTED"
           [] OTHER -> "AUDITED"

\* the records before idx are audited and those after it untouched
UmRegistroDeCadaVez ==
    LoteEmCurso =>
        \A j \in 1..Len(nfs_extraidas) : estado[nfs_extraidas[j]] = EstadoEsperado(j)

\* the index is the one of the records as the run found them
IndiceDoInicio ==
    LoteEmCurso =>
        indice_docs_por_nome = ConstruirIndiceDocumentos(Apontados(lote_inicial, nfs_extraidas))

\* the errors of the record at idx are those of the values the run found in it
ErrosDoValorInicial ==
    pc \in {"corrigir", "auditar"} =>
        LET ref == nfs_extraidas[idx]
            nf == lote_inicial[ref]
            erros == validar_registro_completo(nf, fail_fast)
            nf_num == Get(nf, "nf_numero", RegIdx(idx))
        IN  /\ erros_encontrados = erros
            /\ erros # <<>> =>
                  /\ nf_num \in DOMAIN erros_por_nf
                  /\ erros_por_nf[nf_num] = erros

\* a step that starts a run of filtrar_dados_validos
ComecaExecucao == execucoes' # execucoes

PassosDoRegistro ==
    { <<"RAW", "VALIDATED">>, <<"VALIDATED", "CORRECTION_ATTEMPTED">>,
      <<"CORRECTION_ATTEMPTED", "AUDITED">> }

\* C20: within one run of filtrar_dados_validos every record is validated once, then
\* corrected once, then audited once, record i is audited before record i+1 is
\* validated, the name index is built once, from the records as they were before any
\* correction of the run, and the errors recorded for a record are those of the
\* values it had before its correction.
C20_UmRegistroPorVez ==
    /\ [](UmRegistroDeCadaVez /\ IndiceDoInicio /\ ErrosDoValorInicial)
    /\ [][~ComecaExecucao =>
            /\ \A r \in 1..Len(registros) :
                  estado'[r] # estado[r] => <<estado[r], estado'[r]>> \in PassosDoRegistro
            /\ indice_docs_por_nome' = indice_docs_por_nome]_vars

\* the second of three records, corrected and about to be audited: the first is
\* audited, the third untouched, and the errors on record are no longer those of the
\* record as it is now
C20_Witness ==
    /\ pc = "auditar"
    /\ idx = 2
    /\ Len(nfs_extraidas) = 3
    /\ estado[nfs_extraidas[1]] = "AUDITED"
    /\ estado[nfs_extraidas[3]] = "RAW"
    /\ registros[nfs_extraidas[2]] # lote_inicial[nfs_extraidas[2]]
    /\ erros_encontrados # validar_registro_completo(registros[nfs_extraidas[2]], fail_fast)
    /\ indice_docs_por_nome # ConstruirIndiceDocumentos(Apontados(registros, nfs_extraidas))

\* what the knowledge base answers for the name of the role of the record at hand
RespostaDaBase(chave_doc) ==
    IF <<CampoAprendizado(chave_doc), ChaveDoNome(chave_doc)>>
            \in DOMAIN base_conhecimento.cnpj_por_nome
    THEN base_conhecimento.cnpj_por_nome[<<CampoAprendizado(chave_doc), ChaveDoNome(chave_doc)>>]
    ELSE None

\* the three sources in their order: the identifier the first yielding one gives
InferenciaEsperada(chave_doc) ==
    LET chave == ChaveDoNome(chave_doc)
        exatos == ObservadosExatos(chave_doc, chave)
        contidos == IF Len(chave) >= 12 THEN ObservadosPorContinencia(chave_doc, chave) ELSE {}
    IN  IF Len(chave) < 8 THEN None
        ELSE IF Cardinality(exatos) = 1 THEN CHOOSE d \in exatos : TRUE
        ELSE IF Cardinality(contidos) = 1 THEN CHOOSE d \in contidos : TRUE
        ELSE RespostaDaBase(chave_doc)

\* C21: a missing identifier gets what the first yielding source gives for the name
\* of its role: the single identifier under the exact name key in the role's index,
\* else (keys of 12 characters or more) the single identifier across the entries of
\* the role's index that contain the key or are contained in it, else the answer of
\* the knowledge base for the role; with a key shorter than 8 characters, or no
\* source yielding, the field stays as it was.
C21_TresFontesEmOrdem ==
    pc = "auditar" =>
        \A chave_doc \in ChavesDocumento :
            registros[Atual][chave_doc] =
                IF /\ CampoTidoComoAusente(lote_inicial[Atual], chave_doc)
                   /\ InferenciaEsperada(chave_doc) \notin {None, <<>>}
                THEN InferenciaEsperada(chave_doc)
                ELSE lote_inicial[Atual][chave_doc]

\* a contractor without identifier whose 13-character name is under no exact entry
\* and inside one longer name of the contractors' index: it got that entry's
\* identifier, not the one the knowledge base has for the name, nor the one the
\* recipients' index holds under the exact name
C21_Witness ==
    /\ pc = "auditar"
    /\ BuscaPorNome("contratante_cnpj")
    /\ ObservadosExatos("contratante_cnpj", ChaveDoNome("contratante_cnpj")) = {}
    /\ Cardinality(ObservadosPorContinencia("contratante_cnpj", ChaveDoNome("contratante_cnpj"))) = 1
    /\ RespostaDaBase("contratante_cnpj") \notin {None, registros[Atual].contratante_cnpj}
    /\ Cardinality(ObservadosExatos("destinatario_cnpj", ChaveDoNome("contratante_cnpj"))) = 1
    /\ registros[Atual].contratante_cnpj
          \notin ObservadosExatos("destinatario_cnpj", ChaveDoNome("contratante_cnpj"))
    /\ registros[Atual].contratante_cnpj
          \in ObservadosPorContinencia("contratante_cnpj", ChaveDoNome("contratante_cnpj"))

\* C22 as stated: every identifier the batch index holds is a 14-digit company id
\* that passes the checksum and is not all zeros, under a name key of at least 8
\* characters, so that every identifier taken from the index is such a company id.
C22_IndiceSoComValidos ==
    LoteEmCurso =>
        \A chave_doc \in ChavesDocumento :
            \A nome \in DOMAIN indice_docs_por_nome[chave_doc] :
                /\ Len(nome) >= 8
                /\ \A doc \in DOMAIN indice_docs_por_nome[chave_doc][nome] :
                      /\ Len(doc) = 14
                      /\ doc # [i \in 1..14 |-> "0"]
                      /\ validar_cnpj(doc)

\* the places of the batch whose record had validation errors when the call began
ComErros == { i \in 1..Len(nfs_extraidas) : ErrosDoRegistro(i) # <<>> }

\* the key the errors of the i-th record are kept under
ChaveDosErros(i) == Get(lote_inicial[nfs_extraidas[i]], "nf_numero", RegIdx(i))

RECURSIVE SomaSobre(_, _)
SomaSobre(f, indices) ==
    IF indices = {} THEN 0
    ELSE LET i == CHOOSE x \in indices : TRUE
         IN  f[i] + SomaSobre(f, indices \ {i})

\* what a processor just made holds after filtrar_dados_validos on the batch: every
\* value is counted from the records of the batch alone
EstadoDeUmaChamadaSo ==
    LET n == Len(nfs_extraidas)
        antes(i) == lote_inicial[nfs_extraidas[i]]
        depois(i) == registros[nfs_extraidas[i]]
    IN  /\ registros_com_erros_count = Cardinality(ComErros)
        /\ registros_com_erros_criticos_count =
              Cardinality({ i \in ComErros : ErrosCriticos(ErrosDoRegistro(i)) # <<>> })
        /\ total_erros_encontrados =
              SomaSobre([i \in 1..n |-> Len(ErrosDoRegistro(i))], 1..n)
        /\ registros_corrigidos_count = Cardinality({ i \in 1..n : depois(i) # antes(i) })
        /\ ajustes_manuais_count =
              SomaSobre([i \in 1..n |-> Len(AuditarParaHumano(depois(i)))], 1..n)
        /\ DOMAIN erros_por_nf = { ChaveDosErros(i) : i \in ComErros }
        /\ \A i \in ComErros :
              (\A j \in ComErros : ChaveDosErros(j) = ChaveDosErros(i) => j <= i)
                  => erros_por_nf[ChaveDosErros(i)] = ErrosDoRegistro(i)
        /\ indice_docs_por_nome =
              ConstruirIndiceDocumentos(Apontados(lote_inicial, nfs_extraidas))

\* C26: after the first call of filtrar_dados_validos on a processor and after a
\* call that follows it, the five counters, erros_por_nf and the name index are
\* those of the batch of that call alone: the numbers of its records with errors,
\* with critical errors, corrected, of its errors and of its adjustments, the errors
\* of its records under their keys, and the index of its records as the call found
\* them.
C26_NadaPassaDeUmaChamadaAOutra ==
    pc = "retornou" => EstadoDeUmaChamadaSo

\* the second call has returned: its batch holds a record the first call corrected,
\* nothing was corrected this time, and the adjustments counted are fewer than the
\* events emitted since the processor was made
C26_Witness ==
    /\ pc = "retornou"
    /\ execucoes = 2
    /\ \E i \in 1..Len(lote_inicial) : lote_inicial[i] \notin CatalogoRegistros
    /\ registros_corrigidos_count = 0
    /\ registros_com_erros_count > 0
    /\ ajustes_manuais_count > 0
    /\ Len(eventos) > ajustes_manuais_count

\* the events the step at hand appends to those already emitted
NovosEventos == SubSeq(eventos', Len(eventos) + 1, Len(eventos'))

\* how many of the new events are of the kind and about the field
EventosSobre(campo, tipo) ==
    Cardinality({ i \in 1..Len(NovosEventos) :
                    NovosEventos[i].campo = campo /\ NovosEventos[i].tipo = tipo })

DocumentoAuditado(chave_doc) == NormalizarDocumento(Get(registros[Atual], chave_doc, <<>>))

TextoDoNome(chave_nome) == NormalizarTexto(Get(registros[Atual], chave_nome, <<>>))

IssuesDoRegistro ==
    { <<"ACAO_NECESSARIA", chave>> : chave \in
        { c \in {"contratante_cnpj", "destinatario_cnpj"} :
            Len(DocumentoAuditado(c)) = 11 /\ validar_cpf(DocumentoAuditado(c)) } }
    \cup
    { <<"ATENCAO", CamposCorrecao[i][1]>> : i \in
        { k \in 1..Len(CamposCorrecao) :
            /\ DocumentoAuditado(CamposCorrecao[k][1]) # <<>>
            /\ Len(TextoDoNome(CamposCorrecao[k][2])) < 2 } }
    \cup
    { <<"ACAO_NECESSARIA", chave>> : chave \in
        { c \in {"emitente_cnpj"} :
            /\ DocumentoAuditado(c) # <<>>
            /\ \/ Len(DocumentoAuditado(c)) # 14
               \/ ~validar_cnpj(DocumentoAuditado(c)) } }

EmitenteComDigitoEIntocado ==
    /\ pc = "auditar"
    /\ DigitosDoCampo(registros[Atual], "emitente_cnpj") # <<>>
    /\ registros[Atual].emitente_cnpj = lote_inicial[Atual].emitente_cnpj

\* the audit says of the emitter identifier what the validator said
AuditoriaComoOValidador ==
    EventosSobre("emitente_cnpj", "ACAO_NECESSARIA") =
        IF TemErroCritico(erros_encontrados, "CNPJ Emitente") THEN 1 ELSE 0

-----------------------------------------------------------------------------
(* The name key taken alone (_normalizar_nome_chave)                        *)

MaxNome == 3

\* the characters the short names are made of: letters of both cases, with and
\* without accent, a digit, a blank and punctuation
AlfabetoNomes == {"N", "A", "n", "á", "Ç", "7", " ", "&", ".", "/"}

NomeAcoesECia == <<"A","Ç","Õ","E","S"," ","&"," ","C","I","A",".">>

NomesDeEntrada ==
    UNION { [1..k -> AlfabetoNomes] : k \in 0..MaxNome }
        \cup { None, NomeAcoesECia,
               <<"a","ç","õ","e","s"," "," ","e","\t","c","i","a">>,
               <<" ","N","U","L","L","."," ">>, <<"n","o","n","e","-">> }

InitNome ==
    /\ pc = "nome"
    /\ fail_fast = FALSE
    /\ registro = <<>>
    /\ erros_encontrados = <<>>
    /\ texto_pagina = <<>>
    /\ labels_encontrados = <<>>
    /\ labels_faltando = <<>>
    /\ retorno = SemRetorno
    /\ chamadas = 0
    /\ SemLote
    /\ SemExtracao
    /\ SemLinha
    /\ SemExecucoes
    /\ nome_entrada \in NomesDeEntrada
    /\ chave_devolvida = <<>>

\* chave = _normalizar_nome_chave(nome)
NormalizarNome ==
    /\ pc = "nome"
    /\ chave_devolvida' = NormalizarNomeChave(nome_entrada)
    /\ pc' = "nome_normalizado"
    /\ UNCHANGED <<fail_fast, retorno, varsValidador, varsEstrutura, varsLote, varsExtrator,
                   varsParser, varsExecucoes, nome_entrada>>

\* _normalizar_nome_chave(chave): the key normalized once more
NormalizarDeNovo ==
    /\ pc = "nome_normalizado"
    /\ nome_entrada' = chave_devolvida
    /\ chave_devolvida' = NormalizarNomeChave(chave_devolvida)
    /\ pc' = "nome_renormalizado"
    /\ UNCHANGED <<fail_fast, retorno, varsValidador, varsEstrutura, varsLote, varsExtrator,
                   varsParser, varsExecucoes>>

NextNome ==
    \/ NormalizarNome
    \/ NormalizarDeNovo

SpecNome == InitNome /\ [][NextNome]_vars

\* only A-Z, 0-9 and single interior spaces
SoLetrasDigitosEEspacosSimples(s) ==
    /\ \A i \in 1..Len(s) : s[i] \in LetrasAscii \/ EhDigito(s[i]) \/ s[i] = " "
    /\ s # <<>> => s[1] # " " /\ s[Len(s)] # " "
    /\ \A i \in 1..(Len(s) - 1) : ~(s[i] = " " /\ s[i + 1] = " ")

NomeNormalizado == pc \in {"nome_normalizado", "nome_renormalizado"}

\* C18 as stated: the result of _normalizar_nome_chave holds only A-Z, 0-9 and single
\* interior spaces, normalizing a result again returns it unchanged, and
\* "AÇÕES & CIA." gives "ACOES CIA".
C18_Original ==
    /\ NomeNormalizado => SoLetrasDigitosEEspacosSimples(chave_devolvida)
    /\ pc = "nome_renormalizado" => chave_devolvida = nome_entrada
    /\ (pc = "nome_normalizado" /\ nome_entrada = NomeAcoesECia)
          => chave_devolvida = <<"A","C","O","E","S"," ","C","I","A">>

\* C18: the result of _normalizar_nome_chave holds only A-Z, 0-9 and single interior
\* spaces; normalizing a result again returns it unchanged unless the result is one
\* of the null-like words NONE, NULL, NA, NAN, which normalize to the empty string;
\* and "AÇÕES & CIA." gives "ACOES CIA".
C18_SalvoPalavrasNulas ==
    /\ NomeNormalizado => SoLetrasDigitosEEspacosSimples(chave_devolvida)
    /\ pc = "nome_renormalizado"
          => chave_devolvida = (IF nome_entrada \in ValoresNulos THEN <<>> ELSE nome_entrada)
    /\ (pc = "nome_normalizado" /\ nome_entrada = NomeAcoesECia)
          => chave_devolvida = <<"A","C","O","E","S"," ","C","I","A">>

\* the key NA, obtained from a longer name, normalized once more
C18_Witness ==
    /\ pc = "nome_renormalizado"
    /\ nome_entrada = <<"N","A">>
    /\ chave_devolvida = <<>>

-----------------------------------------------------------------------------
(* Positional parser (gerador/txt_parser.py)                                *)

\* gerador/layout_constants.py: the two record kinds, their total lengths and the
\* 1-based inclusive column ranges of their fields.  The fields and their order are
\* those txt_parser.py imports; the widths are kept short, with the identifier
\* columns 14 wide and the date columns 10 wide.
TN_TIPO == <<"T", "N">>
CC_TIPO == <<"C", "C">>

TN_TAMANHO_TOTAL == 84
CC_TAMANHO_TOTAL == 32

TN_POS ==
    [CNPJ_CONTRATANTE |-> <<3, 16>>, NOME_CONTRATANTE |-> <<17, 22>>,
     NF_NUMERO |-> <<23, 26>>, NF_DATA |-> <<27, 36>>,
     CNPJ_ORIGEM |-> <<37, 50>>, NOME_ORIGEM |-> <<51, 56>>,
     CNPJ_DESTINO |-> <<57, 70>>, NOME_DESTINO |-> <<71, 76>>,
     LOCAL_RETIRADA |-> <<77, 80>>, LOCAL_ENTREGA |-> <<81, 84>>]

CC_POS ==
    [CTE_NUMERO |-> <<3, 6>>, CTE_DATA |-> <<7, 16>>,
     DATA_RECEBIMENTO |-> <<17, 26>>, RECEBEDOR |-> <<27, 32>>]

\* str.ljust(largura)
Ljust(s, largura) ==
    IF Len(s) >= largura THEN s ELSE s \o [i \in 1..(largura - Len(s)) |-> " "]

\* _slice_posicional with the slice starting at inicio instead of inicio - 1
slice_posicional_base_zero(linha, pos) ==
    LET inicio == pos[1] + 1
        fim == IF pos[2] < Len(linha) THEN pos[2] ELSE Len(linha)
    IN  IF inicio > fim THEN <<>> ELSE SubSeq(linha, inicio, fim)

\* _slice_posicional: linha[inicio - 1:fim]
slice_posicional(linha, pos) ==
    LET inicio == pos[1]
        fim == IF pos[2] < Len(linha) THEN pos[2] ELSE Len(linha)
    IN  IF inicio > fim THEN <<>> ELSE SubSeq(linha, inicio, fim)

\* _somente_digitos
somente_digitos(valor) == SelectSeq(valor, EhDigito)

\* str(numero_linha), for the line numbers of a short file
NumeroDaLinha(numero_linha) == <<Digitos[numero_linha + 1]>>

\* _parse_tn
parse_tn(linha, numero_linha) ==
    LET linha_norm == IF Len(linha) >= TN_TAMANHO_TOTAL THEN linha
                      ELSE Ljust(linha, TN_TAMANHO_TOTAL)
    IN  [tipo |-> TN_TIPO,
         linha_numero |-> NumeroDaLinha(numero_linha),
         contratante_cnpj |-> somente_digitos(slice_posicional(linha_norm, TN_POS.CNPJ_CONTRATANTE)),
         contratante_nome |-> Strip(slice_posicional(linha_norm, TN_POS.NOME_CONTRATANTE)),
         nf_numero |-> Strip(slice_posicional(linha_norm, TN_POS.NF_NUMERO)),
         nf_data |-> Strip(slice_posicional(linha_norm, TN_POS.NF_DATA)),
         emitente_cnpj |-> somente_digitos(slice_posicional(linha_norm, TN_POS.CNPJ_ORIGEM)),
         emitente_nome |-> Strip(slice_posicional(linha_norm, TN_POS.NOME_ORIGEM)),
         destinatario_cnpj |-> somente_digitos(slice_posicional(linha_norm, TN_POS.CNPJ_DESTINO)),
         destinatario_nome |-> Strip(slice_posicional(linha_norm, TN_POS.NOME_DESTINO)),
         local_retirada |-> Strip(slice_posicional(linha_norm, TN_POS.LOCAL_RETIRADA)),
         local_entrega |-> Strip(slice_posicional(linha_norm, TN_POS.LOCAL_ENTREGA))]

\* _parse_cc
parse_cc(linha, numero_linha) ==
    LET linha_norm == IF Len(linha) >= CC_TAMANHO_TOTAL THEN linha
                      ELSE Ljust(linha, CC_TAMANHO_TOTAL)
    IN  [tipo |-> CC_TIPO,
         linha_numero |-> NumeroDaLinha(numero_linha),
         cte_numero |-> Strip(slice_posicional(linha_norm, CC_POS.CTE_NUMERO)),
         cte_data |-> Strip(slice_posicional(linha_norm, CC_POS.CTE_DATA)),
         data_recebimento |-> Strip(slice_posicional(linha_norm, CC_POS.DATA_RECEBIMENTO)),
         recebedor |-> Strip(slice_posicional(linha_norm, CC_POS.RECEBEDOR))]

\* prefixo = linha[:2].upper()
Prefixo(linha) == UpperStr(SubSeq(linha, 1, IF Len(linha) < 2 THEN Len(linha) ELSE 2))

\* what parse_txt_siproquim returns
DadosTxt(tn, cc) == [tn |-> tn, cc |-> cc, invalidas |-> <<>>]

-----------------------------------------------------------------------------
(* Inputs of the positional parser                                         *)

\* the column range of each field of a record, by the key the parser gives it
ColunasTn ==
    [contratante_cnpj |-> TN_POS.CNPJ_CONTRATANTE, contratante_nome |-> TN_POS.NOME_CONTRATANTE,
     nf_numero |-> TN_POS.NF_NUMERO, nf_data |-> TN_POS.NF_DATA,
     emitente_cnpj |-> TN_POS.CNPJ_ORIGEM, emitente_nome |-> TN_POS.NOME_ORIGEM,
     destinatario_cnpj |-> TN_POS.CNPJ_DESTINO, destinatario_nome |-> TN_POS.NOME_DESTINO,
     local_retirada |-> TN_POS.LOCAL_RETIRADA, local_entrega |-> TN_POS.LOCAL_ENTREGA]

ColunasCc ==
    [cte_numero |-> CC_POS.CTE_NUMERO, cte_data |-> CC_POS.CTE_DATA,
     data_recebimento |-> CC_POS.DATA_RECEBIMENTO, recebedor |-> CC_POS.RECEBEDOR]

ColunasDe(tipo) == IF tipo = TN_TIPO THEN ColunasTn ELSE ColunasCc
TamanhoDe(tipo) == IF tipo = TN_TIPO THEN TN_TAMANHO_TOTAL ELSE CC_TAMANHO_TOTAL

\* the line a writer makes of a record: the kind in columns 1-2, every value written
\* from the first column of its range on, spaces everywhere else
Codificar(campos) ==
    LET colunas == ColunasDe(campos.tipo)
    IN  [i \in 1..TamanhoDe(campos.tipo) |->
            IF i <= 2 THEN campos.tipo[i]
            ELSE LET f == CHOOSE g \in DOMAIN colunas : colunas[g][1] <= i /\ i <= colunas[g][2]
                     k == i - colunas[f][1] + 1
                 IN  IF k <= Len(campos[f]) THEN campos[f][k] ELSE " "]

\* the values written into the identifier columns: company ids, a person id, a
\* formatted person id, the empty string, the placeholder and a null-like word
CpfDaLinha == Dg(<<3,9,0,5,3,3,4,4,7,0,5>>)

DocumentosDaLinha ==
    { CnpjA, CpfDaLinha, CnpjZerosPlaceholder, <<>>,
      <<"3","9","0",".","5","3","3",".","4","4","7","-","0","5">>,
      <<"N","/","A">> }

NomesDaLinha == { <<"A","C","M","E">>, <<" ","A"," ","B">>, <<"a","ç","o"," ","7">>, <<>> }

LocaisDaLinha == { <<"P">>, <<>> }

DataDaLinha == <<"0","1","/","0","2","/","2","0","2","4">>

RegistrosTn ==
    { [tipo |-> TN_TIPO,
       contratante_cnpj |-> d, contratante_nome |-> n,
       nf_numero |-> Dg(<<1, 0, 0, 1>>), nf_data |-> DataDaLinha,
       emitente_cnpj |-> CnpjA, emitente_nome |-> <<"A","C","M","E">>,
       destinatario_cnpj |-> d, destinatario_nome |-> n,
       local_retirada |-> <<"P">>, local_entrega |-> l]
      : d \in DocumentosDaLinha, n \in NomesDaLinha, l \in LocaisDaLinha }

RegistrosCc ==
    { [tipo |-> CC_TIPO,
       cte_numero |-> c, cte_data |-> DataDaLinha,
       data_recebimento |-> r, recebedor |-> n]
      : c \in {Dg(<<7>>), Dg(<<9, 9, 9, 9>>), <<>>}, r \in {DataDaLinha, <<>>},
        n \in NomesDaLinha }

\* the length of a line without its trailing spaces (at least the prefix)
TamanhoSemPreenchimento(linha) ==
    Maior({2} \cup {i \in 1..Len(linha) : linha[i] # " "})

\* the lines that hold a record: the full line, the line with some or all of its
\* trailing spaces dropped, the line with something after its last column, and the
\* line with its prefix in lower case
LinhasDe(campos) ==
    LET cheia == Codificar(campos)
    IN  { SubSeq(cheia, 1, n) : n \in TamanhoSemPreenchimento(cheia)..Len(cheia) }
            \cup { cheia \o <<" ", "#">>,
                   (IF campos.tipo = TN_TIPO THEN <<"t", "n">> ELSE <<"c", "c">>)
                        \o SubSeq(cheia, 3, TamanhoSemPreenchimento(cheia)) }

\* lines that hold no record of either kind
OutrasLinhas == { <<>>, <<"E","M","1","2","3">>, <<"T">>, <<" ","T","N">> }

SemCampos == [tipo |-> <<>>]

InitParser ==
    /\ pc = "linha"
    /\ fail_fast = FALSE
    /\ registro = <<>>
    /\ erros_encontrados = <<>>
    /\ texto_pagina = <<>>
    /\ labels_encontrados = <<>>
    /\ labels_faltando = <<>>
    /\ retorno = SemRetorno
    /\ chamadas = 0
    /\ SemLote
    /\ SemExtracao
    /\ SemNome
    /\ SemExecucoes
    /\ registro_txt = <<>>
    /\ linhas_txt = <<>>
    /\ idx_linha = 0
    /\ \/ /\ campos_linha \in RegistrosTn \cup RegistrosCc
          /\ linha_txt \in LinhasDe(campos_linha)
       \/ /\ campos_linha = SemCampos
          /\ linha_txt \in OutrasLinhas

LinhaLida ==
    /\ pc' = "linha_lida"
    /\ UNCHANGED <<fail_fast, retorno, varsValidador, varsEstrutura, varsLote, varsExtrator,
                   varsNome, varsExecucoes, campos_linha, linha_txt, linhas_txt, idx_linha>>

\* parse_txt_siproquim on a file of one line that starts with TN
ParseLinhaTn ==
    /\ pc = "linha"
    /\ linha_txt # <<>>
    /\ Prefixo(linha_txt) = TN_TIPO
    /\ registro_txt' = DadosTxt(<<parse_tn(linha_txt, 1)>>, <<>>)
    /\ LinhaLida

\* parse_txt_siproquim on a file of one line that starts with CC
ParseLinhaCc ==
    /\ pc = "linha"
    /\ linha_txt # <<>>
    /\ Prefixo(linha_txt) = CC_TIPO
    /\ registro_txt' = DadosTxt(<<>>, <<parse_cc(linha_txt, 1)>>)
    /\ LinhaLida

\* parse_txt_siproquim on a file of one line that is empty or starts with anything else
IgnorarLinha ==
    /\ pc = "linha"
    /\ linha_txt = <<>> \/ Prefixo(linha_txt) \notin {TN_TIPO, CC_TIPO}
    /\ registro_txt' = DadosTxt(<<>>, <<>>)
    /\ LinhaLida

NextParser ==
    \/ ParseLinhaTn
    \/ ParseLinhaCc
    \/ IgnorarLinha

SpecParser == InitParser /\ [][NextParser]_vars

-----------------------------------------------------------------------------
(* Claims about the positional parser                                      *)

CamposIdentificadores == {"contratante_cnpj", "emitente_cnpj", "destinatario_cnpj"}

\* the record the parser made of the line that holds campos_linha
RegistroLido ==
    IF campos_linha.tipo = TN_TIPO THEN registro_txt.tn[1] ELSE registro_txt.cc[1]

\* a record was written and its line was parsed into one record of its kind
LeuOEscrito ==
    /\ pc = "linha_lida"
    /\ campos_linha # SemCampos

UmRegistroDoTipo ==
    IF campos_linha.tipo = TN_TIPO
    THEN Len(registro_txt.tn) = 1 /\ registro_txt.cc = <<>>
    ELSE Len(registro_txt.cc) = 1 /\ registro_txt.tn = <<>>

\* C17 as stated: for both record kinds, the line that holds a record's field values
\* in their column ranges parses into the trimmed value of every field, also when
\* the line is shorter than the total length of its kind.
C17_Original ==
    LeuOEscrito =>
        /\ UmRegistroDoTipo
        /\ \A f \in DOMAIN ColunasDe(campos_linha.tipo) :
              RegistroLido[f] = Strip(campos_linha[f])

\* C17: for both record kinds, the line that holds a record's field values in their
\* column ranges parses into the trimmed value of every field other than the three
\* identifier fields and into the digits of the value for the identifier fields, also
\* when the line is shorter than the total length of its kind.
C17_IdentificadoresSoDigitos ==
    LeuOEscrito =>
        /\ UmRegistroDoTipo
        /\ \A f \in DOMAIN ColunasDe(campos_linha.tipo) :
              RegistroLido[f] = IF f \in CamposIdentificadores
                                THEN SomenteDigitos(campos_linha[f])
                                ELSE Strip(campos_linha[f])

\* a TN line without its trailing spaces, a formatted person id in its identifier
\* columns and a name with blanks around it, parsed
C17_Witness ==
    /\ LeuOEscrito
    /\ campos_linha.tipo = TN_TIPO
    /\ Len(linha_txt) < TN_TAMANHO_TOTAL
    /\ campos_linha.local_entrega = <<>>
    /\ campos_linha.contratante_nome = <<" ","A"," ","B">>
    /\ RegistroLido.contratante_nome = <<"A"," ","B">>
    /\ campos_linha.contratante_cnpj = <<"3","9","0",".","5","3","3",".","4","4","7","-","0","5">>
    /\ RegistroLido.contratante_cnpj = CpfDaLinha

-----------------------------------------------------------------------------
(* The parser over a whole file (parse_txt_siproquim)                      *)

MaxLinhas == 3

\* the mutant of LerLinha that numbers a record by its place in its list
LerLinhaContandoRegistros(dados, linha, numero) ==
    IF linha = <<>> THEN dados
    ELSE IF Prefixo(linha) = TN_TIPO
    THEN [dados EXCEPT !.tn = Append(@, parse_tn(linha, Len(dados.tn) + 1))]
    ELSE IF Prefixo(linha) = CC_TIPO
    THEN [dados EXCEPT !.cc = Append(@, parse_cc(linha, Len(dados.cc) + 1))]
    ELSE dados

\* the body of the loop of parse_txt_siproquim: an empty line and a line of another
\* prefix are passed over, a TN or CC line is parsed into its list (_parse_tn and
\* _parse_cc raise nothing on a string, so the except branches add nothing)
LerLinha(dados, linha, numero) ==
    IF linha = <<>> THEN dados
    ELSE IF Prefixo(linha) = TN_TIPO
    THEN [dados EXCEPT !.tn = Append(@, parse_tn(linha, numero))]
    ELSE IF Prefixo(linha) = CC_TIPO
    THEN [dados EXCEPT !.cc = Append(@, parse_cc(linha, numero))]
    ELSE dados

TnDoArquivo ==
    [tipo |-> TN_TIPO,
     contratante_cnpj |-> CnpjA, contratante_nome |-> <<"A","C","M","E">>,
     nf_numero |-> Dg(<<1, 0, 0, 1>>), nf_data |-> DataDaLinha,
     emitente_cnpj |-> CnpjA, emitente_nome |-> <<"A","C","M","E">>,
     destinatario_cnpj |-> CpfDaLinha, destinatario_nome |-> <<>>,
     local_retirada |-> <<"P">>, local_entrega |-> <<>>]

CcDoArquivo ==
    [tipo |-> CC_TIPO, cte_numero |-> Dg(<<7>>), cte_data |-> DataDaLinha,
     data_recebimento |-> <<>>, recebedor |-> <<"A","C","M","E">>]

\* the lines a file is made of: a full TN line, a CC line cut after its last value
\* with the prefix in lower case, the bare prefix TN, the empty line, a line of
\* another kind and a line that has the prefix after a space
LinhasDoArquivo ==
    { Codificar(TnDoArquivo),
      <<"c", "c">> \o SubSeq(Codificar(CcDoArquivo), 3,
                             TamanhoSemPreenchimento(Codificar(CcDoArquivo))),
      TN_TIPO, <<>>, <<"E","M","1","2","3">>, <<" ","T","N">> }

Arquivos == UNION { [1..n -> LinhasDoArquivo] : n \in 0..MaxLinhas }

\* parse_txt_siproquim has read the lines and made its three empty lists
InitArquivo ==
    /\ pc = "arquivo"
    /\ fail_fast = FALSE
    /\ registro = <<>>
    /\ erros_encontrados = <<>>
    /\ texto_pagina = <<>>
    /\ labels_encontrados = <<>>
    /\ labels_faltando = <<>>
    /\ retorno = SemRetorno
    /\ chamadas = 0
    /\ SemLote
    /\ SemExtracao
    /\ SemNome
    /\ SemExecucoes
    /\ campos_linha = SemCampos
    /\ linha_txt = <<>>
    /\ linhas_txt \in Arquivos
    /\ idx_linha = 0
    /\ registro_txt = DadosTxt(<<>>, <<>>)

\* one turn of the loop over enumerate(linhas, start=1)
ProcessarLinha ==
    /\ pc = "arquivo"
    /\ idx_linha < Len(linhas_txt)
    /\ idx_linha' = idx_linha + 1
    /\ linha_txt' = linhas_txt[idx_linha + 1]
    /\ registro_txt' = LerLinha(registro_txt, linhas_txt[idx_linha + 1], idx_linha + 1)
    /\ UNCHANGED <<pc, fail_fast, retorno, varsValidador, varsEstrutura, varsLote,
                   varsExtrator, varsNome, varsExecucoes, campos_linha, linhas_txt>>

\* the return of parse_txt_siproquim, after the last line
DevolverDados ==
    /\ pc = "arquivo"
    /\ idx_linha = Len(linhas_txt)
    /\ pc' = "arquivo_lido"
    /\ UNCHANGED <<fail_fast, retorno, varsValidador, varsEstrutura, varsLote,
                   varsExtrator, varsNome, varsExecucoes, varsParser>>

NextArquivo ==
    \/ ProcessarLinha
    \/ DevolverDados

SpecArquivo == InitArquivo /\ [][NextArquivo]_vars

-----------------------------------------------------------------------------
(* Claims about the parser over a whole file                               *)

LendoArquivo == pc \in {"arquivo", "arquivo_lido"}

\* the line selects the record kind: it is not empty and its first two characters,
\* in upper case, are the kind's prefix
SelecionaTipo(linha, tipo) == linha # <<>> /\ Prefixo(linha) = tipo

\* the places of a list of records whose record is of line i (linha_numero is
\* str(numero_linha))
DaLinha(lista, i) ==
    { j \in 1..Len(lista) : lista[j].linha_numero = NumeroDaLinha(i) }

\* the diagnostics of line i (linha_numero is the number)
DiagnosticosDaLinha(i) ==
    { j \in 1..Len(registro_txt.invalidas) : registro_txt.invalidas[j].linha_numero = i }

\* the line a record names
LinhaDe(entrada) ==
    CHOOSE i \in 1..MaxLinhas : entrada.linha_numero = NumeroDaLinha(i)

EmOrdemDeArquivo(lista) ==
    \A j, k \in 1..Len(lista) : j < k => LinhaDe(lista[j]) < LinhaDe(lista[k])

\* C25: every line the loop has handled that is not empty and selects a record kind
\* has exactly one entry, a record in the list of its kind (of that kind, with the
\* 1-based number of the line) or a diagnostic with that number, and none in the
\* other list; an empty line, a line of another prefix and a line not yet handled
\* have no entry; the records of each list are in file order; and the function
\* returns only after the last line, whatever the lines before held.
C25_CadaLinhaPorSi ==
    LendoArquivo =>
        /\ \A i \in 1..Len(linhas_txt) :
              LET em_tn == Cardinality(DaLinha(registro_txt.tn, i))
                  em_cc == Cardinality(DaLinha(registro_txt.cc, i))
                  em_invalidas == Cardinality(DiagnosticosDaLinha(i))
              IN  IF i <= idx_linha /\ SelecionaTipo(linhas_txt[i], TN_TIPO)
                  THEN em_tn + em_invalidas = 1 /\ em_cc = 0
                  ELSE IF i <= idx_linha /\ SelecionaTipo(linhas_txt[i], CC_TIPO)
                  THEN em_cc + em_invalidas = 1 /\ em_tn = 0
                  ELSE em_tn + em_cc + em_invalidas = 0
        /\ Len(registro_txt.tn) + Len(registro_txt.cc) + Len(registro_txt.invalidas)
              <= idx_linha
        /\ \A j \in 1..Len(registro_txt.tn) : registro_txt.tn[j].tipo = TN_TIPO
        /\ \A j \in 1..Len(registro_txt.cc) : registro_txt.cc[j].tipo = CC_TIPO
        /\ EmOrdemDeArquivo(registro_txt.tn)
        /\ EmOrdemDeArquivo(registro_txt.cc)
        /\ pc = "arquivo_lido" => idx_linha = Len(linhas_txt)

\* a file of an empty line, a line of another kind and a TN line was read to its
\* end: the one record is that of line 3
C25_Witness ==
    /\ pc = "arquivo_lido"
    /\ Len(linhas_txt) = 3
    /\ linhas_txt[1] = <<>>
    /\ ~SelecionaTipo(linhas_txt[2], TN_TIPO) /\ ~SelecionaTipo(linhas_txt[2], CC_TIPO)
    /\ linhas_txt[2] # <<>>
    /\ Len(registro_txt.tn) = 1
    /\ registro_txt.tn[1].linha_numero = <<"3">>
    /\ registro_txt.tn[1].contratante_cnpj = CnpjA
    /\ registro_txt.cc = <<>>
    /\ registro_txt.invalidas = <<>>

-----------------------------------------------------------------------------
(* Two calls of filtrar_dados_validos under way on one processor           *)

MaxLoteConcorrente == 2

Execucoes == {1, 2}

\* the records of the two batches: one whose identifiers all stand under one name,
\* one with a short emitter name and two more names, one whose contractor has that
\* name and no identifier
CatalogoConcorrente ==
    { Registro(Dg(<<1,0,0,1>>), <<CnpjA, NomeXA>>, <<CnpjA, NomeXA>>, <<CnpjA, NomeXA>>),
      Registro(Dg(<<1,0,0,2>>), <<CnpjA, NomeCurto>>, <<CnpjB, NomeXB>>, <<CnpjB, NomeXAVariante>>),
      Registro(Dg(<<1,0,0,4>>), <<Isento, NomeXA>>, <<<<>>, NomeXA>>, <<CnpjInvalido, NomeX>>) }

LotesConcorrentes ==
    UNION { [1..n -> CatalogoConcorrente] : n \in 1..MaxLoteConcorrente }

\* one processor just made, and two lists of records of their own handed to two
\* calls of filtrar_dados_validos that have not begun
InitConcorrente ==
    /\ pc = "concorrente"
    /\ fail_fast = FALSE
    /\ registro = <<>>
    /\ erros_encontrados = <<>>
    /\ texto_pagina = <<>>
    /\ labels_encontrados = <<>>
    /\ labels_faltando = <<>>
    /\ retorno = SemRetorno
    /\ chamadas = 0
    /\ InitProcessador
    /\ validar_estrutura_pdf_flag = FALSE
    /\ base_conhecimento \in {BaseVazia, BaseAprendida}
    /\ nfs_extraidas = <<>>
    /\ \E a, b \in LotesConcorrentes :
          /\ registros = a \o b
          /\ lote_exec = << [i \in 1..Len(a) |-> i], [i \in 1..Len(b) |-> Len(a) + i] >>
    /\ lote_inicial = registros
    /\ estado = [i \in 1..Len(registros) |-> "RAW"]
    /\ pc_exec = <<"chamar", "chamar">>
    /\ idx_exec = <<0, 0>>
    /\ SemExtracao
    /\ SemLinha
    /\ SemNome

\* the record the loop of call e is at
RefDe(e) == lote_exec[e][idx_exec[e]]

\* call e of filtrar_dados_validos up to its loop: the counters and erros_por_nf of
\* the processor reset, its index replaced by that of the list of the call
ComecarExecucao(e) ==
    /\ pc_exec[e] = "chamar"
    /\ registros_corrigidos_count' = 0
    /\ registros_com_erros_count' = 0
    /\ registros_com_erros_criticos_count' = 0
    /\ total_erros_encontrados' = 0
    /\ erros_por_nf' = <<>>
    /\ ajustes_manuais_count' = 0
    /\ indice_docs_por_nome' = ConstruirIndiceDocumentos(Apontados(registros, lote_exec[e]))
    /\ idx_exec' = [idx_exec EXCEPT ![e] = 1]
    /\ pc_exec' = [pc_exec EXCEPT ![e] = "validar"]
    /\ UNCHANGED <<pc, fail_fast, retorno, varsValidador, varsEstrutura, varsExtrator,
                   varsParser, varsNome, validar_estrutura_pdf_flag, base_conhecimento,
                   registros, nfs_extraidas, nfs_finais, idx, eventos, estado, execucoes,
                   lote_inicial, lote_exec>>

\* step 1 of the loop body of call e, on the counters of the processor
ValidarNaExecucao(e) ==
    /\ pc_exec[e] = "validar"
    /\ LET nf == registros[RefDe(e)]
           nf_num == Get(nf, "nf_numero", RegIdx(idx_exec[e]))
           erros == validar_registro_completo(nf, fail_fast)
       IN  /\ erros_encontrados' = erros
           /\ IF erros # <<>>
              THEN /\ erros_por_nf' = Atribuir(erros_por_nf, nf_num, erros)
                   /\ registros_com_erros_count' = registros_com_erros_count + 1
                   /\ total_erros_encontrados' = total_erros_encontrados + Len(erros)
                   /\ registros_com_erros_criticos_count' =
                        IF ErrosCriticos(erros) # <<>>
                        THEN registros_com_erros_criticos_count + 1
                        ELSE registros_com_erros_criticos_count
              ELSE UNCHANGED <<erros_por_nf, registros_com_erros_count,
                               total_erros_encontrados, registros_com_erros_criticos_count>>
    /\ estado' = [estado EXCEPT ![RefDe(e)] = "VALIDATED"]
    /\ pc_exec' = [pc_exec EXCEPT ![e] = "corrigir"]
    /\ UNCHANGED <<pc, fail_fast, registro, retorno, varsEstrutura, varsExtrator,
                   varsParser, varsNome, validar_estrutura_pdf_flag, base_conhecimento,
                   registros, nfs_extraidas, nfs_finais, idx, registros_corrigidos_count,
                   ajustes_manuais_count, indice_docs_por_nome, eventos, execucoes,
                   lote_inicial, lote_exec, idx_exec>>

\* step 2 of the loop body of call e, with the index the processor holds by then
CorrigirNaExecucao(e) ==
    /\ pc_exec[e] = "corrigir"
    /\ LET res == TentarCorrigirDados(registros[RefDe(e)], indice_docs_por_nome,
                                      base_conhecimento)
       IN  /\ registros' = [registros EXCEPT ![RefDe(e)] = res.nf]
           /\ registros_corrigidos_count' =
                IF res.corrigiu THEN registros_corrigidos_count + 1
                ELSE registros_corrigidos_count
    /\ estado' = [estado EXCEPT ![RefDe(e)] = "CORRECTION_ATTEMPTED"]
    /\ pc_exec' = [pc_exec EXCEPT ![e] = "auditar"]
    /\ UNCHANGED <<pc, fail_fast, retorno, varsValidador, varsEstrutura, varsExtrator,
                   varsParser, varsNome, validar_estrutura_pdf_flag, base_conhecimento,
                   nfs_extraidas, nfs_finais, idx, registros_com_erros_count,
                   registros_com_erros_criticos_count, total_erros_encontrados,
                   ajustes_manuais_count, erros_por_nf, indice_docs_por_nome, eventos,
                   execucoes, lote_inicial, lote_exec, idx_exec>>

\* steps 3 and 4 of the loop body of call e (its nfs_finais is the part of its list
\* it has gone through), and the return after the last record
AuditarNaExecucao(e) ==
    /\ pc_exec[e] = "auditar"
    /\ LET ajustes == AuditarParaHumano(registros[RefDe(e)])
       IN  /\ ajustes_manuais_count' = ajustes_manuais_count + Len(ajustes)
           /\ eventos' = eventos \o ajustes
    /\ estado' = [estado EXCEPT ![RefDe(e)] = "AUDITED"]
    /\ idx_exec' = [idx_exec EXCEPT ![e] = @ + 1]
    /\ pc_exec' = [pc_exec EXCEPT ![e] =
                      IF idx_exec[e] = Len(lote_exec[e]) THEN "retornou" ELSE "validar"]
    /\ UNCHANGED <<pc, fail_fast, retorno, varsValidador, varsEstrutura, varsExtrator,
                   varsParser, varsNome, validar_estrutura_pdf_flag, base_conhecimento,
                   registros, nfs_extraidas, nfs_finais, idx, registros_corrigidos_count,
                   registros_com_erros_count, registros_com_erros_criticos_count,
                   total_erros_encontrados, erros_por_nf, indice_docs_por_nome, execucoes,
                   lote_inicial, lote_exec>>

NextConcorrente ==
    \E e \in Execucoes :
        \/ ComecarExecucao(e)
        \/ ValidarNaExecucao(e)
        \/ CorrigirNaExecucao(e)
        \/ AuditarNaExecucao(e)

SpecConcorrente == InitConcorrente /\ [][NextConcorrente]_vars

-----------------------------------------------------------------------------
(* Claims about two calls under way                                        *)

\* the identifiers the batch of call e shows for the role, as the call found it
ObservadosNoLoteDe(e, chave_doc) ==
    LET ind == ConstruirIndiceDocumentos(Apontados(lote_inicial, lote_exec[e]))[chave_doc]
    IN  UNION { DOMAIN ind[nome] : nome \in DOMAIN ind }

\* the identifiers the knowledge base can answer
DocumentosDaBase ==
    { base_conhecimento.cnpj_por_nome[k] : k \in DOMAIN base_conhecimento.cnpj_por_nome }

\* every identifier put into a record of a batch is one its own batch shows for the
\* role, or one of the knowledge base
InferidoDoProprioLote ==
    pc = "concorrente" =>
        \A e \in Execucoes : \A j \in 1..Len(lote_exec[e]) : \A chave_doc \in ChavesDocumento :
            LET ref == lote_exec[e][j]
            IN  registros[ref][chave_doc] # lote_inicial[ref][chave_doc] =>
                    registros[ref][chave_doc]
                        \in ObservadosNoLoteDe(e, chave_doc) \cup DocumentosDaBase

\* the counters a call leaves at its return count the records of its list
ContadoresDoProprioLote ==
    \A e \in Execucoes :
        (pc_exec[e] # "retornou" /\ pc_exec'[e] = "retornou") =>
            LET seus == { lote_exec[e][j] : j \in 1..Len(lote_exec[e]) }
            IN  /\ registros_com_erros_count' =
                      Cardinality({ r \in seus :
                          validar_registro_completo(lote_inicial[r], fail_fast) # <<>> })
                /\ registros_corrigidos_count' =
                      Cardinality({ r \in seus : registros'[r] # lote_inicial[r] })

\* C27 as stated: with two calls of filtrar_dados_validos under way, every
\* identifier inferred for a record of one batch comes from the observations of that
\* batch or from the knowledge base, and the counters at the return of a call count
\* the records of that call only.
C27_LotesIndependentes ==
    /\ []InferidoDoProprioLote
    /\ [][ContadoresDoProprioLote]_vars

====
